---- MODULE Spec2Model ----
(***************************************************************************)
(* A model of the FinanceAgent analysis pipeline:                          *)
(*   - the analyst graph of graph/main_graph.py, executed the way the      *)
(*     compiled LangGraph StateGraph executes it (bulk-synchronous         *)
(*     supersteps: every node triggered by an edge whose source finished   *)
(*     in the previous superstep runs in the next one),                    *)
(*   - the node bodies of graph/nodes/analysis_nodes.py with the artifact  *)
(*     store of core/result_manager.py,                                    *)
(*   - the two entry points of api/impl_stock.py (background task and      *)
(*     server-sent event stream),                                          *)
(*   - the provider registry of core/cache_manager.py and the way the      *)
(*     analyst tools of tools/stock_tools.py obtain a provider from it.    *)
(*                                                                         *)
(* Texts are sequences of tokens; a Python dict is a record, an ordered    *)
(* dict of interfaces is a sequence of records; a Python value whose type  *)
(* the code inspects (isinstance) carries a type tag.                      *)
(***************************************************************************)
EXTENDS Integers, Sequences, FiniteSets, TLC

(* ------------------------------ bounds -------------------------------- *)

\* How many of the eight fundamental interfaces a modelled run fetches.
MaxInterfaces == 2

\* How many calls of the analyst tools are made against the provider registry.
MaxFetches == 2

(* --------------------------- generic helpers -------------------------- *)

\* dict.get(k, default)
Get(d, k, dflt) == IF k \in DOMAIN d THEN d[k] ELSE dflt

\* sep.join(parts) for a sequence of texts
RECURSIVE Join(_, _)
Join(parts, sep) ==
    IF parts = <<>> THEN <<>>
    ELSE IF Len(parts) = 1 THEN Head(parts)
    ELSE Head(parts) \o sep \o Join(Tail(parts), sep)

\* str.strip() of a text is non-empty
NonBlank(t) == \E i \in 1..Len(t) : t[i] \notin {" ", "\n", "\n\n"}

\* All orderings (sequences without repetition) of a finite set
Perms(S) ==
    {p \in [1..Cardinality(S) -> S] : \A i, j \in 1..Cardinality(S) : p[i] = p[j] => i = j}

\* Python values whose type the code inspects
Dict(v) == [type |-> "dict", v |-> v]
Str(t)  == [type |-> "str",  v |-> t]

\* json.loads(text) succeeds (the texts handed to the store are diagnostics and
\* placeholder texts; a JSON document starts with its opening brace)
IsJsonText(t) == t # <<>> /\ Head(t) = "{"

(* ------------------------------- dates -------------------------------- *)

\* datetime.now(): the day of the run
Today == "d1"

\* A date string is the format it is written in and the day it names.
NoDate == [fmt |-> "none", day |-> "-"]
DateStr(fmt, day) == [fmt |-> fmt, day |-> day]

\* ResultManager._parse_date: the accepted formats, tried in order
date_formats == <<"%Y-%m-%d", "%Y%m%d", "%Y/%m/%d", "%Y.%m.%d", "%Y_nian_%m_yue_%d_ri">>

_parse_date(date_str) ==
    IF date_str.fmt = "none" THEN [ok |-> FALSE, day |-> "-"]
    ELSE IF \E i \in 1..Len(date_formats) : date_formats[i] = date_str.fmt
         THEN [ok |-> TRUE, day |-> date_str.day]
         ELSE [ok |-> FALSE, day |-> "-"]

\* ResultManager._get_date_dir: the directory <stock_dir>/<YYYYMMDD>
_get_date_dir(stock_dir, end_date) ==
    LET date_str ==
            IF end_date.fmt # "none"
            THEN IF _parse_date(end_date).ok THEN _parse_date(end_date).day ELSE Today
            ELSE Today
    IN <<stock_dir, date_str>>

\* ResultManager._get_stock_dir
_get_stock_dir(stock_code) == stock_code

(* --------------------------- artifact store --------------------------- *)

VARIABLES
    files       \* the result directory: path <<symbol, YYYYMMDD, file name>> -> JSON payload

FilePath(date_dir, filename) == <<date_dir[1], date_dir[2], filename>>

\* ResultManager.save_report
save_report(fs, stock_code, report_type, report_data, report_name, end_date) ==
    LET date_dir == _get_date_dir(_get_stock_dir(stock_code), end_date)
        name     == IF report_name = "" THEN report_type \o "_report" ELSE report_name
        filename == name \o ".json"
        payload  == [report_type |-> report_type, data |-> report_data]
    IN (FilePath(date_dir, filename) :> payload) @@ fs

\* Variant of save_tool_result that stores the result as <tool_name>.json
save_tool_result_plain_name(fs, stock_code, tool_name, tool_result, end_date) ==
    LET date_dir == _get_date_dir(_get_stock_dir(stock_code), end_date)
        filename == tool_name \o ".json"
        payload  ==
            IF tool_result.type = "dict"
            THEN [tool |-> tool_name, data |-> tool_result.v]
            ELSE [tool |-> tool_name, text |-> tool_result.v]
    IN (FilePath(date_dir, filename) :> payload) @@ fs

\* ResultManager.save_tool_result
save_tool_result(fs, stock_code, tool_name, tool_result, end_date) ==
    LET date_dir == _get_date_dir(_get_stock_dir(stock_code), end_date)
        filename == tool_name \o "_tool_result.json"
        payload  ==
            IF tool_result.type = "dict"
            THEN [tool |-> tool_name, data |-> tool_result.v]
            ELSE IF IsJsonText(tool_result.v)
                 THEN [tool |-> tool_name, data |-> [parsed |-> tool_result.v]]
                 ELSE [tool |-> tool_name, text |-> tool_result.v]
    IN (FilePath(date_dir, filename) :> payload) @@ fs

\* ResultManager.load_tool_result: the payload, or None when the file is absent
NotFound == [found |-> FALSE]
load_tool_result(fs, stock_code, tool_name, end_date) ==
    LET date_dir == _get_date_dir(_get_stock_dir(stock_code), end_date)
        filepath == FilePath(date_dir, tool_name \o "_tool_result.json")
    IN IF filepath \in DOMAIN fs THEN [found |-> TRUE, payload |-> fs[filepath]] ELSE NotFound

\* ResultManager.load_news_data: structured news first, then the basic news
load_news_data(fs, stock_code, end_date) ==
    LET structured_data == load_tool_result(fs, stock_code, "news_sentiment_structured", end_date)
        basic_data      == load_tool_result(fs, stock_code, "news_sentiment", end_date)
    IN IF structured_data.found /\ "data" \in DOMAIN structured_data.payload
       THEN structured_data
       ELSE IF basic_data.found THEN basic_data ELSE NotFound

\* ResultManager.get_result_summary: the listing of every date directory of the symbol
get_result_summary(fs, stock_code) ==
    {<<p[2], p[3]>> : p \in {q \in DOMAIN fs : q[1] = _get_stock_dir(stock_code)}}

(* ------------------------------- inputs ------------------------------- *)

VARIABLES
    request,    \* the caller's request: [stock_code, end_date], end_date possibly absent
    mock,       \* what the mocked providers and LLMs do in this run: [news, fundamental, raises, content]
    entry,      \* the entry point that runs the graph: "background" | "stream" | "none"
    probe,          \* per provider: what its construction and availability probe meet
    cache_manager,  \* the registry: [provider, provider_type], and the probes issued so far
    init_result,    \* the import-time initialize(): "none" | "ok" | "raised"
    fetches,        \* the results of the analyst tools' calls: [tool, kind, provider]
    calls           \* per interface of a tool call: the upstream calls its fetch issued

(* --------------------------- news processing -------------------------- *)

VARIABLES
    corpus,     \* the call of analyze_news_batched: [parts, max_chars, model_max_tokens, input_ratio]
    batches,    \* what the call made of it: [status, max_chars, list]
    items,      \* the crawled news items that reach the event aggregation
    merged,     \* the representatives the aggregation leaves, <<>> before it ran
    crawl,      \* the enriched items that reach the selection: [items, end_dt, news_window_days, news_topk]
    selected,   \* what the selection kept of them: [done, list]
    article,    \* a search result and its article page: the time signals they carry
    published,  \* the published_at resolved for it: [done, published_at]
    span_end,   \* an end_date as a calendar date: [fmt, date]
    span        \* the starts of the window computed from it: [done, fetch, summary, analysis_period]

(* ------------------------ process-wide objects ------------------------ *)

VARIABLES
    threads,            \* per worker thread inside an analyst tool: [pc, obtained]
    polled,             \* the last response of get_task_status, <<>> before the first
    yaml_file,          \* the news YAML file: [mtime, data], mtime <<>> while it is absent
    DEFAULT_NEWS_CFG,   \* the module-level default configuration of the crawler
    _CFG_CACHE          \* the module-level cache of get_news_config: [mtime, cfg]

Symbol == "000001.SZ"

\* The end_date strings a caller may send
EndDates ==
    {NoDate, DateStr("%Y%m%d", "d1"), DateStr("%Y%m%d", "d2"),
     DateStr("%Y-%m-%d", "d2"), DateStr("tomorrow", "d2")}

\* get_fundamental_data: data_objectives, the interfaces and their objectives
data_objectives ==
    <<[dtype |-> "fina_indicator", objective |-> "profitability and financial indicators"],
      [dtype |-> "daily_basic",    objective |-> "daily valuation level"],
      [dtype |-> "dividend",       objective |-> "dividends"],
      [dtype |-> "income",         objective |-> "revenue and profit"],
      [dtype |-> "balance",        objective |-> "assets and liabilities"],
      [dtype |-> "cashflow",       objective |-> "cash flow quality"],
      [dtype |-> "forecast",       objective |-> "earnings forecast"],
      [dtype |-> "mainbz",         objective |-> "main business"]>>

FundInterfaces == 1..MaxInterfaces

\* get_news: news_data_objectives
news_data_objectives ==
    <<[dtype |-> "news",       objective |-> "flash news analysis"],
      [dtype |-> "major_news", objective |-> "major news analysis"],
      [dtype |-> "cctv_news",  objective |-> "cctv news analysis"]>>

\* The summaries a mocked LLM may return for one interface
Variants == {"a", "b"}

\* What the mocked providers of one run deliver.  News "unavailable": no news
\* provider is configured.  Fundamental "error": the tool body raised and its
\* outer handler stored the diagnostic.
NewsMocks ==
    {[kind |-> "unavailable"]} \cup
    {[kind |-> "ok", variant |-> v] : v \in [1..Len(news_data_objectives) -> Variants]}

FundamentalMocks ==
    {[kind |-> "error"]} \cup
    {[kind |-> "ok", variant |-> v, order |-> o] :
        v \in [FundInterfaces -> Variants], o \in Perms(FundInterfaces)}

\* The summary text of one interface (process_and_summarize and its
\* placeholders never return a blank text)
Summary(dtype, v) == <<dtype \o ":" \o v>>

(* ----------------------------- graph run ------------------------------ *)

VARIABLES
    graph,      \* "init" | "running" | "done" | "raised"
    tasks,      \* the nodes of the current superstep
    status,     \* per node in the current superstep: "idle" | "running" | "done" | "raised"
    runs,       \* per node: how many executions have ended
    state,      \* the graph state: channel -> value, for the channels that hold a value
    writes,     \* the outputs of the current superstep's nodes, applied at its end
    failed,     \* the nodes whose body raised
    prompt,     \* per node: the inputs of its last call of the analyst LLM
    stream,     \* the frames handed to the transport so far
    gen,        \* stream_analysis_generator: "idle" | "loop" | "except" | "finally" | "closed"
    task        \* run_analysis_background: the entry of the task map

\* build_graph: the nodes and the edges
Nodes ==
    {"start", "fundamental_analysis", "news_analysis", "sentiment_analysis",
     "technical_analysis", "fund_analysis", "supervisor", "final_result_save"}

Edges ==
    {<<"start", "fundamental_analysis">>, <<"start", "news_analysis">>,
     <<"fundamental_analysis", "sentiment_analysis">>, <<"news_analysis", "sentiment_analysis">>,
     <<"start", "technical_analysis">>, <<"start", "fund_analysis">>,
     <<"sentiment_analysis", "supervisor">>, <<"technical_analysis", "supervisor">>,
     <<"fund_analysis", "supervisor">>, <<"fundamental_analysis", "supervisor">>,
     <<"supervisor", "final_result_save">>}

entry_point == "start"

\* The compiled graph: a node is triggered by each of its incoming edges
\* separately, in the superstep after the one in which the edge's source ran.
Triggered(done) == {m \in Nodes : \E n \in done : <<n, m>> \in Edges}

(* --------------------------- event stream ----------------------------- *)

Frame(event_type, agent, finish_reason) ==
    [event_type |-> event_type, agent |-> agent, finish_reason |-> finish_reason]

Event(event, name, has_output) == [event |-> event, name |-> name, has_output |-> has_output]

\* format_event: the nodes whose end is reported
ReportedNodes ==
    {"fundamental_analysis", "technical_analysis", "sentiment_analysis", "news_analysis",
     "fund_analysis", "bull_debate", "bear_debate", "debate_analyst", "supervisor",
     "final_result_save"}

\* format_event: the frames one upstream event is translated to
format_event(data) ==
    IF data.event = "on_graph_end" THEN <<>>
    ELSE IF data.event = "on_chain_end" /\ data.name \in ReportedNodes
    THEN <<Frame("node_complete", data.name, "stop")>>
         \o (IF data.has_output THEN <<Frame("analysis_result", data.name, "stop")>> ELSE <<>>)
    ELSE IF data.event = "on_chain_start" THEN <<Frame("progress", data.name, "none")>>
    ELSE IF data.event = "on_tool_start"  THEN <<Frame("progress", data.name, "none")>>
    ELSE IF data.event = "on_tool_end"    THEN <<Frame("progress", data.name, "none")>>
    ELSE IF data.event = "on_chat_model_stream"
    THEN <<Frame("message_chunk", data.name, "stop")>>
    ELSE <<>>

RECURSIVE FormatAll(_)
FormatAll(events) ==
    IF events = <<>> THEN <<>> ELSE format_event(Head(events)) \o FormatAll(Tail(events))

\* The loop of stream_analysis_generator: every event of the running graph is
\* formatted and yielded; a background run has no stream.
Yield(events) ==
    IF entry = "stream" /\ gen = "loop" THEN stream \o FormatAll(events) ELSE stream

\* The events of a tool call made inside a node
ToolEvents(tool) == <<Event("on_tool_start", tool, FALSE), Event("on_tool_end", tool, TRUE)>>

\* The events of the analyst chain (prompt | llm) up to the model call
ChainStartEvents ==
    <<Event("on_chain_start", "RunnableSequence", FALSE),
      Event("on_prompt_start", "ChatPromptTemplate", FALSE),
      Event("on_prompt_end", "ChatPromptTemplate", TRUE),
      Event("on_chat_model_start", "ChatOpenAI", FALSE)>>

\* The events of the analyst chain once the model answers
ChainEndEvents ==
    <<Event("on_chat_model_stream", "ChatOpenAI", TRUE),
      Event("on_chat_model_end", "ChatOpenAI", TRUE),
      Event("on_chain_end", "RunnableSequence", TRUE)>>

\* The variables of the news selection and of the later checks
yvars == <<threads, polled, yaml_file, DEFAULT_NEWS_CFG, _CFG_CACHE>>

xvars == <<crawl, selected, article, published, span_end, span, yvars>>

\* The variables no step of a graph run changes
ivars == <<request, mock, entry, probe, cache_manager, init_result, fetches, calls,
           corpus, batches, items, merged, xvars>>

\* The variables of the graph run and its entry points
gvars == <<files, graph, tasks, status, runs, state, writes, failed, prompt, stream, gen, task>>

vars == <<files, request, mock, entry, probe, cache_manager, init_result, fetches, calls,
          corpus, batches, items, merged, xvars, graph, tasks,
          status, runs, state, writes, failed, prompt, stream, gen, task>>

(* ------------------------------- tools -------------------------------- *)

EmptyDict == <<>>
EmptyText == <<>>

\* get_fundamental_data: interface_results, in the order the workers complete
interface_results(m) ==
    [k \in 1..MaxInterfaces |->
        [name      |-> data_objectives[m.order[k]].dtype,
         objective |-> data_objectives[m.order[k]].objective,
         result    |-> Summary(data_objectives[m.order[k]].dtype, m.variant[m.order[k]]),
         status    |-> "success"]]

\* get_fundamental_data: what the tool persists under "fundamental_data"
get_fundamental_data(fs, stock_code, end_date) ==
    IF mock.fundamental.kind = "error"
    THEN save_tool_result(fs, stock_code, "fundamental_data",
                          Str(<<"error while fetching market data">>), end_date)
    ELSE save_tool_result(fs, stock_code, "fundamental_data",
                          Dict([analysis_type |-> "fundamental data analysis",
                                interfaces    |-> interface_results(mock.fundamental)]),
                          end_date)

\* _format_result_as_text: the interfaces in the order of the dict, each with
\* its status mark and objective
_format_result_as_text(result_data) ==
    LET interface_texts ==
            [k \in 1..Len(result_data.interfaces) |->
                <<IF result_data.interfaces[k].status = "success" THEN "ok" ELSE "error",
                  "[" \o result_data.interfaces[k].objective \o "]", "\n">>
                \o result_data.interfaces[k].result]
    IN IF result_data.interfaces = <<>> THEN <<>>
       ELSE <<result_data.analysis_type \o ":", "\n">> \o Join(interface_texts, <<"\n---\n">>)

\* get_fundamental_data: the text the tool returns to the node
fundamental_data_text(m) ==
    IF m.kind = "error" THEN <<"error while fetching market data">>
    ELSE _format_result_as_text([analysis_type |-> "fundamental data analysis",
                                 interfaces    |-> interface_results(m)])

\* get_tech_data: what the tool persists under "tech_data" (the placeholder
\* text of a run without provider is stored under the same name)
get_tech_data(fs, stock_code, end_date) ==
    save_tool_result(fs, stock_code, "tech_data",
                     Dict([analysis_type |-> "technical data analysis", interfaces |-> <<>>]),
                     end_date)

\* get_fund_data: what the tool persists under "fund_data" (the error and
\* placeholder dicts of a run without provider are stored under the same name)
get_fund_data(fs, stock_code, end_date) ==
    save_tool_result(fs, stock_code, "fund_data",
                     Dict([analysis_type |-> "fund flow data analysis", interfaces |-> <<>>]),
                     end_date)

\* get_news: the results of the three news interfaces
news_interface_results(m) ==
    [k \in 1..Len(news_data_objectives) |->
        [name      |-> news_data_objectives[k].dtype,
         objective |-> news_data_objectives[k].objective,
         result    |-> Summary(news_data_objectives[k].dtype, m.variant[k]),
         status    |-> "success"]]

\* get_news: the results of the interfaces that have one, in the order
\* news, major_news, cctv_news
RECURSIVE combined_summaries(_)
combined_summaries(rs) ==
    IF rs = <<>> THEN <<>>
    ELSE (IF Head(rs).result # EmptyText THEN <<Head(rs).result>> ELSE <<>>)
         \o combined_summaries(Tail(rs))

\* get_news: overall_summary_text
overall_summary_text(rs) ==
    IF combined_summaries(rs) # <<>>
    THEN Join(combined_summaries(rs), <<"\n\n====\n\n">>)
    ELSE <<"no news summary">>

\* get_news: what the tool persists under "news_data"
get_news(fs, stock_code, end_date) ==
    IF mock.news.kind = "unavailable"
    THEN save_tool_result(fs, stock_code, "news_data", Str(<<"placeholder news">>), end_date)
    ELSE save_tool_result(fs, stock_code, "news_data",
                          Dict([analysis_type    |-> "news data analysis",
                                combined_summary |-> overall_summary_text(news_interface_results(mock.news)),
                                interfaces       |-> news_interface_results(mock.news)]),
                          end_date)

(* ------------------------------ reports ------------------------------- *)

\* The score keys of each perspective, under the name of its analyst
ScoreKeys ==
    [fundamental_analyst |-> {"profitability", "solvency", "growth_potential"},
     technical_analyst   |-> {"trend_strength", "momentum", "support_resistance",
                              "volume_analysis", "pattern_analysis"},
     sentiment_analyst   |-> {"market_heat", "investor_sentiment", "institution_opinion"},
     news_analyst        |-> {"sentiment_score", "news_impact", "market_attention"},
     fund_analyst        |-> {"main_capital", "institution_capital", "retail_capital"}]

\* The JSON object a well-formed answer of the analyst LLM carries
AnalystReport(name) ==
    [analyst_name |-> name, viewpoint |-> "neutral", reason |-> <<"reason of " \o name>>,
     scores |-> [k \in ScoreKeys[name] |-> 3], detailed_analysis |-> <<"analysis of " \o name>>]

\* run_fund_analysis: default_report
default_report ==
    [analyst_name |-> "fund_analyst", viewpoint |-> "neutral",
     reason |-> <<"fund data failed">>,
     scores |-> [k \in ScoreKeys["fund_analyst"] |-> 0],
     detailed_analysis |-> <<"fund data tool failed">>]

\* The JSON object a well-formed answer of the supervisor LLM carries
SupervisorReport ==
    [analyst_name |-> "supervisor", summary |-> <<"summary">>,
     forecast |-> [short_term |-> "hold", mid_term |-> "hold", long_term |-> "hold"]]

\* parse_analyst_report: content[:200]
SentinelChars == 200

\* An answer of an LLM: the JSON document it carries (`json`, a shape of the
\* sets below; "text" is no JSON document), whether the document stands in a
\* ```json fence, whether prose surrounds it, and how many characters it has
Content(json, fenced, prose, length) ==
    [json |-> json, fenced |-> fenced, prose |-> prose, length |-> length]

required_fields == <<"analyst_name", "viewpoint", "reason", "scores", "detailed_analysis">>
RequiredFields == {required_fields[i] : i \in 1..Len(required_fields)}

\* The documents an analyst LLM may answer with
AnalystShapes ==
    {"full", "empty_object", "scores_out_of_range", "scores_other_keys",
     "list_of_names", "list", "str_of_names", "str", "int", "null", "text"}
    \cup {"no_" \o required_fields[i] : i \in 1..Len(required_fields)}

\* The documents the supervisor LLM may answer with
SupervisorShapes == {"full", "no_forecast", "two_horizons", "list", "text"}

\* The characters of an answer
RawText(content) == [i \in 1..content.length |-> "c"]

\* Variant of the slice that keeps the whole text
Prefix_whole(text, n) == text

\* content[:n]
Prefix(text, n) == SubSeq(text, 1, IF Len(text) < n THEN Len(text) ELSE n)

\* Python values that are no dict
List(elems)  == [type |-> "list", v |-> elems]
String(subs) == [type |-> "str", v |-> subs]
Scalar(type) == [type |-> type, v |-> {}]

\* A record without one of its fields
Without(r, f) == [k \in DOMAIN r \ {f} |-> r[k]]

\* The value of the JSON document an analyst's answer carries
AnalystDocument(name, json) ==
    CASE json = "full"                -> Dict(AnalystReport(name))
      [] json = "empty_object"        -> Dict(EmptyDict)
      [] json = "scores_out_of_range" ->
            Dict([AnalystReport(name) EXCEPT !.scores = [k \in ScoreKeys[name] |-> 9]])
      [] json = "scores_other_keys"   ->
            Dict([AnalystReport(name) EXCEPT !.scores = [confidence |-> 3]])
      [] json = "list_of_names"       -> List(RequiredFields)
      [] json = "list"                -> List({"viewpoint"})
      [] json = "str_of_names"        -> String(RequiredFields)
      [] json = "str"                 -> String({"reason"})
      [] json = "int"                 -> Scalar("int")
      [] json = "null"                -> Scalar("NoneType")
      [] OTHER                        ->
            Dict(Without(AnalystReport(name),
                         CHOOSE f \in RequiredFields : json = "no_" \o f))

\* The value of the JSON document the supervisor's answer carries
SupervisorDocument(json) ==
    CASE json = "full"         -> Dict(SupervisorReport)
      [] json = "no_forecast"  -> Dict(Without(SupervisorReport, "forecast"))
      [] json = "two_horizons" ->
            Dict([SupervisorReport EXCEPT !.forecast = Without(SupervisorReport.forecast, "long_term")])
      [] OTHER                 -> List({})

\* json.loads(json_str) after the fence was cut away: it fails on a text that
\* is no JSON document and on a document with prose around it outside a fence
Invalid == [type |-> "JSONDecodeError", v |-> {}]
json_loads(content, document) ==
    IF content.json = "text" \/ (content.prose /\ ~content.fenced) THEN Invalid ELSE document

\* `field not in report_data` raises TypeError for a value that is no container
IsContainer(value) == value.type \in {"dict", "list", "str"}
Holds(value, field) ==
    IF value.type = "dict" THEN field \in DOMAIN value.v ELSE field \in value.v

\* parse_analyst_report: what a missing field is set to
FieldDefault(field) ==
    IF field = "scores" THEN EmptyDict
    ELSE IF field \in {"analyst_name", "viewpoint"} THEN "" ELSE EmptyText

\* parse_analyst_report: the report of an answer that is no JSON
ParseFailed(content) ==
    [analyst_name |-> "analysis failed", viewpoint |-> "neutral",
     reason |-> <<"data parse failed">>, scores |-> EmptyDict,
     detailed_analysis |-> <<"parse failed: ">> \o Prefix(RawText(content), SentinelChars) \o <<"...">>]

\* parse_analyst_report: the report of any other exception
SystemFailed ==
    [analyst_name |-> "analysis failed", viewpoint |-> "neutral",
     reason |-> <<"system error">>, scores |-> EmptyDict,
     detailed_analysis |-> <<"system error: ", "e">>]

\* parse_analyst_report: a dict is completed with the defaults; a list or a
\* string that holds every field name passes the membership tests and is
\* returned as it is; item assignment on any other list or string, and the
\* membership test on a scalar, raise TypeError
Parsed(content, document) ==
    LET report_data == json_loads(content, document)
    IN IF report_data.type = Invalid.type THEN ParseFailed(content)
       ELSE IF ~IsContainer(report_data) THEN SystemFailed
       ELSE IF report_data.type = "dict"
            THEN [f \in DOMAIN report_data.v \cup RequiredFields |->
                    IF f \in DOMAIN report_data.v THEN report_data.v[f] ELSE FieldDefault(f)]
            ELSE IF \A f \in RequiredFields : Holds(report_data, f)
                 THEN report_data
                 ELSE SystemFailed

\* parse_analyst_report(result.content) in the node of the named analyst
parse_analyst_report(name) ==
    Parsed(mock.content.analyst, AnalystDocument(name, mock.content.analyst.json))

\* parse_supervisor_report(result.content)
parse_supervisor_report ==
    LET content     == mock.content.supervisor
        report_data == json_loads(content, SupervisorDocument(content.json))
    IN IF report_data.type = Invalid.type
       THEN [error       |-> "Failed to parse supervisor report JSON",
             raw_content |-> Prefix(RawText(content), SentinelChars)]
       ELSE IF report_data.type = "dict" THEN report_data.v ELSE report_data

\* save_all_reports: report_mapping
report_mapping ==
    <<[key |-> "fundamental_report", type |-> "fundamental"],
      [key |-> "technical_report",   type |-> "technical"],
      [key |-> "sentiment_report",   type |-> "sentiment"],
      [key |-> "news_report",        type |-> "news"],
      [key |-> "fund_report",        type |-> "fund"],
      [key |-> "bull_report",        type |-> "bull"],
      [key |-> "bear_report",        type |-> "bear"],
      [key |-> "debate_report",      type |-> "debate"],
      [key |-> "supervisor_report",  type |-> "supervisor"]>>

\* ResultManager.save_all_reports
RECURSIVE SaveMapped(_, _, _, _)
SaveMapped(fs, stock_code, st, mapping) ==
    IF mapping = <<>> THEN fs
    ELSE LET m == Head(mapping)
             fs1 == IF m.key \in DOMAIN st
                    THEN save_report(fs, stock_code, m.type, st[m.key], "", Get(st, "end_date", NoDate))
                    ELSE fs
         IN SaveMapped(fs1, stock_code, st, Tail(mapping))

save_all_reports(fs, stock_code, st) == SaveMapped(fs, stock_code, st, report_mapping)

(* ----------------------------- node bodies ---------------------------- *)

\* A node body returns its update of the graph state: the task ends, its
\* output is applied at the end of the superstep, its end is reported.
Return(n, out, events) ==
    /\ status' = [status EXCEPT ![n] = "done"]
    /\ runs'   = [runs EXCEPT ![n] = @ + 1]
    /\ writes' = IF graph = "running" THEN out @@ writes ELSE writes
    /\ stream' = Yield(events \o <<Event("on_chain_end", n, DOMAIN out # {})>>)
    /\ UNCHANGED <<graph, tasks, state, failed, gen, task, ivars>>

\* A node body raises: the exception leaves the node and ends the graph run.
Raise(n, events) ==
    /\ status' = [status EXCEPT ![n] = "raised"]
    /\ failed' = failed \cup {n}
    /\ graph'  = IF graph = "running" THEN "raised" ELSE graph
    /\ stream' = Yield(events)
    /\ UNCHANGED <<tasks, runs, state, writes, gen, task, ivars>>

\* The calls of the analyst LLM a run can make: <<node, execution of the node>>
LLMCalls ==
    {<<"fundamental_analysis", 1>>, <<"news_analysis", 1>>, <<"technical_analysis", 1>>,
     <<"fund_analysis", 1>>, <<"sentiment_analysis", 1>>, <<"supervisor", 1>>, <<"supervisor", 2>>}

\* The mocked LLM of one run raises in none of its calls or in one of them
RaiseSets == {{}} \cup {{c} : c \in LLMCalls}

\* chain.invoke: the analyst LLM answers ("ok") or the call raises ("raise")
chain_invoke(n) == IF <<n, runs[n] + 1>> \in mock.raises THEN "raise" ELSE "ok"

Running(n) == status[n] = "running"

start_node ==
    /\ Running("start")
    /\ Return("start", <<>>, <<>>)
    /\ UNCHANGED <<files, prompt>>

run_fundamental_analysis(llm) ==
    /\ Running("fundamental_analysis")
    /\ LET stock_code == state["stock_code"]
           end_date   == Get(state, "end_date", NoDate)
           fs1        == get_fundamental_data(files, stock_code, end_date)
           report     == parse_analyst_report("fundamental_analyst")
       IN /\ prompt' = ("fundamental_analysis" :>
                            [stock_code       |-> stock_code,
                             fundamental_data |-> fundamental_data_text(mock.fundamental)])
                        @@ prompt
          /\ IF llm = "raise"
             THEN /\ files' = fs1
                  /\ Raise("fundamental_analysis", ToolEvents("get_fundamental_data") \o ChainStartEvents)
             ELSE /\ files' = save_report(fs1, stock_code, "fundamental", report,
                                          "fundamental_report", end_date)
                  /\ Return("fundamental_analysis", "fundamental_report" :> report,
                            ToolEvents("get_fundamental_data") \o ChainStartEvents \o ChainEndEvents)

run_technical_analysis(llm) ==
    /\ Running("technical_analysis")
    /\ LET stock_code == state["stock_code"]
           end_date   == Get(state, "end_date", NoDate)
           fs1        == get_tech_data(files, stock_code, end_date)
           report     == parse_analyst_report("technical_analyst")
       IN /\ prompt' = ("technical_analysis" :> [stock_code |-> stock_code]) @@ prompt
          /\ IF llm = "raise"
             THEN /\ files' = fs1
                  /\ Raise("technical_analysis", ToolEvents("get_tech_data") \o ChainStartEvents)
             ELSE /\ files' = save_report(fs1, stock_code, "technical", report,
                                          "technical_report", end_date)
                  /\ Return("technical_analysis", "technical_report" :> report,
                            ToolEvents("get_tech_data") \o ChainStartEvents \o ChainEndEvents)

\* run_news_analysis: the stored news are used when load_news_data finds them
run_news_analysis(llm) ==
    /\ Running("news_analysis")
    /\ LET stock_code     == state["stock_code"]
           end_date       == Get(state, "end_date", NoDate)
           news_data_dict == load_news_data(files, stock_code, end_date)
           fs1            == IF news_data_dict.found THEN files
                             ELSE get_news(files, stock_code, end_date)
           tool_events    == IF news_data_dict.found THEN <<>> ELSE ToolEvents("get_news")
           report         == parse_analyst_report("news_analyst")
       IN /\ prompt' = ("news_analysis" :> [stock_code |-> stock_code]) @@ prompt
          /\ IF llm = "raise"
             THEN /\ files' = fs1
                  /\ Raise("news_analysis", tool_events \o ChainStartEvents)
             ELSE /\ files' = save_report(fs1, stock_code, "news", report, "news_report", end_date)
                  /\ Return("news_analysis", "news_report" :> report,
                            tool_events \o ChainStartEvents \o ChainEndEvents)

\* run_fund_analysis: the only node body with a handler of its own
run_fund_analysis(llm) ==
    /\ Running("fund_analysis")
    /\ LET stock_code == state["stock_code"]
           end_date   == Get(state, "end_date", NoDate)
           fs1        == get_fund_data(files, stock_code, end_date)
           report     == IF llm = "raise" THEN default_report ELSE parse_analyst_report("fund_analyst")
           events     == IF llm = "raise" THEN ToolEvents("get_fund_data") \o ChainStartEvents
                         ELSE ToolEvents("get_fund_data") \o ChainStartEvents \o ChainEndEvents
       IN /\ prompt' = ("fund_analysis" :> [stock_code |-> stock_code]) @@ prompt
          /\ files' = save_report(fs1, stock_code, "fund", report, "fund_report", end_date)
          /\ Return("fund_analysis", "fund_report" :> report, events)

\* run_sentiment_analysis: the label put in front of one interface's result
Labelled(interface_data) ==
    <<"[" \o interface_data.objective \o "]", "\n">> \o interface_data.result

\* run_sentiment_analysis: results, the labelled non-blank results in stored order
RECURSIVE results(_)
results(interfaces) ==
    IF interfaces = <<>> THEN <<>>
    ELSE (IF "result" \in DOMAIN Head(interfaces) /\ NonBlank(Head(interfaces).result)
          THEN <<Labelled(Head(interfaces))>> ELSE <<>>)
         \o results(Tail(interfaces))

\* Variant of step 1 that looks for the summary at the top of the stored envelope
news_combined_summary_top_level(fs, stock_code, end_date) ==
    LET news_data == load_tool_result(fs, stock_code, "news_data", end_date)
    IN IF news_data.found
       THEN Get(news_data.payload, "combined_summary", EmptyText)
       ELSE EmptyText

\* run_sentiment_analysis, step 1: the combined summary of the stored news
news_combined_summary(fs, stock_code, end_date) ==
    LET news_data == load_tool_result(fs, stock_code, "news_data", end_date)
    IN IF news_data.found
       THEN Get(Get(news_data.payload, "data", EmptyDict), "combined_summary", EmptyText)
       ELSE EmptyText

\* run_sentiment_analysis, step 2: the result fields of the stored fundamentals,
\* or the upstream report when there are none
fundamental_result(fs, st, stock_code, end_date) ==
    LET fundamental_data == load_tool_result(fs, stock_code, "fundamental_data", end_date)
        data_section     == IF fundamental_data.found
                            THEN Get(fundamental_data.payload, "data", EmptyDict) ELSE EmptyDict
        interfaces       == Get(data_section, "interfaces", <<>>)
        stored           == IF interfaces # <<>>
                            THEN Join(results(interfaces), <<"\n\n">>)
                            ELSE Get(data_section, "result", EmptyText)
        backup           == Get(st, "fundamental_report", EmptyDict)
    IN IF stored # EmptyText THEN stored
       ELSE IF "reason" \in DOMAIN backup THEN backup.reason
       ELSE IF "detailed_analysis" \in DOMAIN backup THEN backup.detailed_analysis
       ELSE EmptyText

run_sentiment_analysis(llm) ==
    /\ Running("sentiment_analysis")
    /\ LET stock_code == state["stock_code"]
           end_date   == Get(state, "end_date", NoDate)
           sentiment_input ==
               [stock_code            |-> stock_code,
                end_date              |-> end_date,
                news_combined_summary |-> news_combined_summary(files, stock_code, end_date),
                fundamental_result    |-> fundamental_result(files, state, stock_code, end_date)]
           fs1    == save_tool_result(files, stock_code, "sentiment_input",
                                      Dict(sentiment_input), end_date)
           report == parse_analyst_report("sentiment_analyst")
       IN /\ prompt' = ("sentiment_analysis" :> [sentiment_data |-> sentiment_input]) @@ prompt
          /\ IF llm = "raise"
             THEN /\ files' = fs1
                  /\ Raise("sentiment_analysis", ChainStartEvents)
             ELSE /\ files' = save_report(fs1, stock_code, "sentiment", report,
                                          "sentiment_report", end_date)
                  /\ Return("sentiment_analysis", "sentiment_report" :> report,
                            ChainStartEvents \o ChainEndEvents)

\* run_supervisor: news_summary, read through load_news_data
news_summary(fs, stock_code, end_date) ==
    LET news_data == load_news_data(fs, stock_code, end_date)
    IN IF ~news_data.found THEN EmptyText
       ELSE IF Get(news_data.payload, "combined_summary", EmptyText) # EmptyText
            THEN news_data.payload.combined_summary
            ELSE Get(news_data.payload, "result", EmptyText)

run_supervisor(llm) ==
    /\ Running("supervisor")
    /\ LET stock_code == state["stock_code"]
           end_date   == Get(state, "end_date", NoDate)
           inputs     == [stock_code         |-> stock_code,
                          fundamental_report |-> Get(state, "fundamental_report", EmptyDict),
                          technical_report   |-> Get(state, "technical_report", EmptyDict),
                          sentiment_report   |-> Get(state, "sentiment_report", EmptyDict),
                          fund_report        |-> Get(state, "fund_report", EmptyDict),
                          news_summary       |-> news_summary(files, stock_code, end_date)]
       IN /\ prompt' = ("supervisor" :> inputs) @@ prompt
          /\ IF llm = "raise"
             THEN /\ files' = files
                  /\ Raise("supervisor", ChainStartEvents)
             ELSE /\ files' = save_report(files, stock_code, "supervisor", parse_supervisor_report,
                                          "supervisor_report", end_date)
                  /\ Return("supervisor", "supervisor_report" :> parse_supervisor_report,
                            ChainStartEvents \o ChainEndEvents)

\* final_result_save: every report of the state, then the summary
final_result_save ==
    /\ Running("final_result_save")
    /\ LET stock_code == state["stock_code"]
           fs1        == save_all_reports(files, stock_code, state)
           summary    == get_result_summary(fs1, stock_code)
       IN /\ files' = save_report(fs1, stock_code, "summary", summary, "analysis_summary", NoDate)
          /\ Return("final_result_save", "final_report" :> <<"analysis finished">>, <<>>)
          /\ UNCHANGED prompt

(* ------------------------- superstep scheduler ------------------------ *)

\* The runner submits every task of a superstep before it waits for any of
\* them: the tasks start together, their start events in the order the worker
\* threads emit them.
StartEvents(order) == [i \in DOMAIN order |-> Event("on_chain_start", order[i], FALSE)]

\* Every task of the superstep has returned: the outputs are applied to the
\* state, and the nodes triggered by this superstep's nodes form the next
\* superstep and start; the run is over when no node is triggered.
EndSuperstep ==
    /\ graph = "running"
    /\ tasks # {}
    /\ \A n \in tasks : status[n] = "done"
    /\ state'  = writes @@ state
    /\ writes' = <<>>
    /\ tasks'  = Triggered(tasks)
    /\ status' = [n \in Nodes |-> IF n \in Triggered(tasks) THEN "running" ELSE "idle"]
    /\ graph'  = IF Triggered(tasks) = {} THEN "done" ELSE "running"
    /\ \E order \in Perms(Triggered(tasks)) :
           stream' = IF Triggered(tasks) = {}
                     THEN Yield(<<Event("on_chain_end", "LangGraph", TRUE)>>)
                     ELSE Yield(StartEvents(order))
    /\ UNCHANGED <<files, runs, failed, prompt, gen, task, ivars>>

\* The input of the graph: an absent end_date is replaced by today's date
inputs(req) ==
    [stock_code |-> req.stock_code,
     end_date   |-> IF req.end_date = NoDate THEN DateStr("%Y%m%d", Today) ELSE req.end_date]

(* ---------------------------- entry points ---------------------------- *)

\* run_analysis_background, up to app.invoke
BackgroundStart ==
    /\ entry = "background"
    /\ task.status = "pending"
    /\ graph = "init"
    /\ task'  = [task EXCEPT !.status = "running"]
    /\ graph' = "running"
    /\ state' = inputs(request)
    /\ tasks' = {entry_point}
    /\ status' = [status EXCEPT ![entry_point] = "running"]
    /\ UNCHANGED <<files, runs, writes, failed, prompt, stream, gen, ivars>>

\* run_analysis_background, after app.invoke returned or raised: the
\* assignment of tasks[task_id]['status']
BackgroundFinish ==
    /\ entry = "background"
    /\ task.status = "running"
    /\ graph \in {"done", "raised"}
    /\ task' = [task EXCEPT !.status = IF graph = "done" THEN "completed" ELSE "failed"]
    /\ UNCHANGED <<files, graph, tasks, status, runs, state, writes, failed, prompt, stream,
                   gen, ivars>>

\* run_analysis_background: the assignment of tasks[task_id]['result'], the
\* statement after the one that assigns the status
BackgroundResult ==
    /\ entry = "background"
    /\ task.status \in {"completed", "failed"}
    /\ task.result = <<>>
    /\ task' = [task EXCEPT !.result =
                    IF task.status = "completed"
                    THEN <<Get(state, "final_report", <<"no final report">>)>>
                    ELSE <<<<"error">>>>]
    /\ UNCHANGED <<files, graph, tasks, status, runs, state, writes, failed, prompt, stream,
                   gen, ivars>>

\* get_task_status on the event loop, while run_analysis_background runs on a
\* worker thread: the entry of the task map as it is at that moment
get_task_status ==
    /\ entry = "background"
    /\ polled' = <<task>>
    /\ UNCHANGED <<request, mock, probe, cache_manager, init_result, fetches, calls,
                   corpus, batches, items, merged, crawl, selected, article, published,
                   span_end, span, threads, yaml_file, DEFAULT_NEWS_CFG, _CFG_CACHE, entry,
                   gvars>>

\* Variant of the error frame that is sent on the agent of the terminal frame
SystemError_as_system == Frame("message_chunk", "system", "stop")

\* stream_analysis_generator: error_event
SystemError == Frame("message_chunk", "system_error", "stop")

\* stream_analysis_generator: final_event
SystemFinal == Frame("message_chunk", "system", "stop")

\* stream_analysis_generator, up to the first event of astream_events
GeneratorStart ==
    /\ entry = "stream"
    /\ gen = "idle"
    /\ graph = "init"
    /\ gen'    = "loop"
    /\ graph'  = "running"
    /\ state'  = inputs(request)
    /\ tasks'  = {entry_point}
    /\ status' = [status EXCEPT ![entry_point] = "running"]
    /\ stream' = stream \o FormatAll(<<Event("on_chain_start", "LangGraph", FALSE),
                                        Event("on_chain_start", entry_point, FALSE)>>)
    /\ UNCHANGED <<files, runs, writes, failed, prompt, task, ivars>>

\* stream_analysis_generator, except clause: the run raised out of the loop
GeneratorExcept ==
    /\ gen = "loop"
    /\ graph = "raised"
    /\ gen'    = "except"
    /\ stream' = Append(stream, SystemError)
    /\ UNCHANGED <<files, graph, tasks, status, runs, state, writes, failed, prompt, task, ivars>>

\* Variant of the finally clause that sends the terminal frame only after a
\* run that did not raise
GeneratorFinally_on_success ==
    /\ \/ gen = "loop" /\ graph = "done"
       \/ gen = "except"
    /\ gen'    = "closed"
    /\ stream' = IF gen = "except" THEN stream ELSE Append(stream, SystemFinal)
    /\ UNCHANGED <<files, graph, tasks, status, runs, state, writes, failed, prompt, task, ivars>>

\* stream_analysis_generator, finally clause
GeneratorFinally ==
    /\ \/ gen = "loop" /\ graph = "done"
       \/ gen = "except"
    /\ gen'    = "closed"
    /\ stream' = Append(stream, SystemFinal)
    /\ UNCHANGED <<files, graph, tasks, status, runs, state, writes, failed, prompt, task, ivars>>

(* -------------------------- provider registry ------------------------- *)

\* initialize: the order in which the providers are tried
ProviderOrder == <<"tushare", "tinyshare", "akshare">>

\* What the construction of a provider meets: no token configured
\* ("unconfigured"), no client could be created ("no_client"), or a client whose
\* probe call raises, returns an empty table or returns a non-empty table
ProbeOutcomes ==
    [tushare   : {"no_client", "raise", "empty", "nonempty"},
     tinyshare : {"unconfigured", "no_client", "raise", "empty", "nonempty"},
     akshare   : {"raise", "empty", "nonempty"}]

\* CacheManager.__init__
NoProvider == [name |-> "none", is_available |-> FALSE]
NewCacheManager == [provider |-> NoProvider, provider_type |-> "tushare", probed |-> <<>>]

\* Variant of the probe that takes every table for a success
_test_availability_any_table(name) == probe[name] \in {"empty", "nonempty"}

\* Provider._test_availability: the probe succeeds on a non-empty table only
_test_availability(name) == probe[name] = "nonempty"

\* TushareProvider / TinyshareProvider / AkshareProvider constructor: the probe
\* is issued when there is a client
Provider(name) ==
    [name |-> name,
     is_available |-> probe[name] \notin {"unconfigured", "no_client"} /\ _test_availability(name)]

\* The registry after one _try_initialize_<name>, and whether it succeeded
TryResult(cm, name) ==
    IF probe[name] = "unconfigured"
    THEN [success |-> FALSE, cm |-> cm]
    ELSE [success |-> Provider(name).is_available,
          cm |-> [provider      |-> Provider(name),
                  provider_type |-> IF Provider(name).is_available
                                    THEN name ELSE cm.provider_type,
                  probed        |-> IF probe[name] = "no_client" THEN cm.probed
                                    ELSE Append(cm.probed, name)]]

_try_initialize_tushare(cm)   == TryResult(cm, "tushare")
_try_initialize_tinyshare(cm) == TryResult(cm, "tinyshare")
_try_initialize_akshare(cm)   == TryResult(cm, "akshare")

\* CacheManager.initialize: [raised, cm]
initialize(cm) ==
    LET tushare   == _try_initialize_tushare(cm)
        tinyshare == _try_initialize_tinyshare(tushare.cm)
        akshare   == _try_initialize_akshare(tinyshare.cm)
    IN IF tushare.success THEN [raised |-> FALSE, cm |-> tushare.cm]
       ELSE IF tinyshare.success THEN [raised |-> FALSE, cm |-> tinyshare.cm]
       ELSE IF akshare.success THEN [raised |-> FALSE, cm |-> akshare.cm]
       ELSE [raised |-> TRUE, cm |-> akshare.cm]

\* CacheManager.get_provider
get_provider(cm) == cm.provider

\* api/impl_stock.py, at import (before any tool is called): initialize()
\* inside try/except
ImportInitialize ==
    /\ entry = "none"
    /\ init_result = "none"
    /\ fetches = <<>>
    /\ cache_manager' = initialize(cache_manager).cm
    /\ init_result' = IF initialize(cache_manager).raised THEN "raised" ELSE "ok"
    /\ UNCHANGED <<request, mock, entry, probe, fetches, calls, gvars,
                   corpus, batches, items, merged, xvars>>

\* What each tool hands back when initialize() raises inside it
OnInitializeError ==
    [get_fundamental_data |-> "unavailable", get_tech_data |-> "placeholder",
     get_fund_data |-> "unavailable"]

\* What each tool hands back when get_provider() returns None
OnNoProvider ==
    [get_fundamental_data |-> "unavailable", get_tech_data |-> "placeholder",
     get_fund_data |-> "placeholder"]

\* The head of get_fundamental_data / get_tech_data / get_fund_data: the
\* registry is initialised when it holds no provider, then the data are fetched
\* from the provider it holds
ToolFetch(tool) ==
    /\ entry = "none"
    /\ Len(fetches) < MaxFetches
    /\ LET uninitialised == cache_manager.provider = NoProvider
           init          == initialize(cache_manager)
           cm            == IF uninitialised THEN init.cm ELSE cache_manager
           provider      == get_provider(cm)
           result        == IF uninitialised /\ init.raised
                            THEN [tool |-> tool, kind |-> OnInitializeError[tool], provider |-> "none"]
                            ELSE IF provider = NoProvider
                            THEN [tool |-> tool, kind |-> OnNoProvider[tool], provider |-> "none"]
                            ELSE [tool |-> tool, kind |-> "fetched", provider |-> provider.name]
       IN /\ cache_manager' = cm
          /\ fetches' = Append(fetches, result)
    /\ UNCHANGED <<request, mock, entry, probe, init_result, calls, gvars,
                   corpus, batches, items, merged, xvars>>

\* The defaults as the module defines them: one scalar and one nested
\* mapping (weights in hundredths)
BuiltinDefaults ==
    [news_topk |-> 10, source_weights |-> ("CLS" :> 115 @@ "STCN" :> 120)]

NoYaml == [mtime |-> <<>>, data |-> [news_topk |-> <<>>, source_weights |-> <<>>]]

\* _CFG_CACHE as the module defines it
NewCfgCache == [mtime |-> <<>>, cfg |-> BuiltinDefaults]

\* No thread is inside a tool, nobody polls, the configuration is untouched
ServiceIdle ==
    /\ threads = <<>>
    /\ polled = <<>>
    /\ yaml_file = NoYaml
    /\ DEFAULT_NEWS_CFG = BuiltinDefaults
    /\ _CFG_CACHE = NewCfgCache

\* No selection is being made
NoCrawl == [items |-> <<>>, end_dt |-> 0, news_window_days |-> 0, news_topk |-> 0]

NotSelected == [done |-> FALSE, list |-> <<>>]

\* No window is being computed
NoSpanEnd == [fmt |-> "", date |-> [year |-> 0, month |-> 0, day |-> 0]]

NoSpan == [done |-> FALSE, fetch |-> <<>>, summary |-> <<>>, analysis_period |-> <<>>]

WindowIdle ==
    /\ span_end = NoSpanEnd
    /\ span = NoSpan

\* No time is being resolved
NoArticle == [fetch |-> "ok", structured |-> <<>>, visible |-> <<>>, url |-> <<>>, relative |-> <<>>,
              end_dt |-> 0]

NotPublished == [done |-> FALSE, published_at |-> <<>>]

SelectionIdle ==
    /\ ServiceIdle
    /\ crawl = NoCrawl
    /\ selected = NotSelected
    /\ article = NoArticle
    /\ published = NotPublished
    /\ WindowIdle

\* No news is being processed
NoCorpus == [parts |-> <<>>, max_chars |-> <<>>, model_max_tokens |-> 0, input_ratio |-> 0]

NoBatches == [status |-> "idle", max_chars |-> 0, list |-> <<>>]

NewsIdle ==
    /\ corpus = NoCorpus
    /\ batches = NoBatches
    /\ items = <<>>
    /\ merged = <<>>
    /\ SelectionIdle

\* The registry of a process whose import-time initialize() selected tushare
RegistryReady ==
    /\ probe = [tushare |-> "nonempty", tinyshare |-> "nonempty", akshare |-> "nonempty"]
    /\ cache_manager = [provider      |-> [name |-> "tushare", is_available |-> TRUE],
                        provider_type |-> "tushare",
                        probed        |-> <<"tushare">>]
    /\ init_result = "ok"
    /\ fetches = <<>>
    /\ calls = <<>>

(* ------------------- tools on concurrent threads --------------------- *)

\* The analyst nodes of one superstep run on worker threads; each calls its
\* tool, and the tools share the module-level cache_manager without a lock.
\* A thread is at the tool's check of the registry ("check"), inside
\* initialize() before the construction of provider `name` ("assign") or
\* before the test of its is_available ("test"), at get_provider ("get"), or
\* past it ("done")
MaxThreads == 2

Threads == 1..MaxThreads

ThreadStart == [pc |-> "check", name |-> "", entered |-> FALSE, obtained |-> <<>>]

\* initialize: the provider tried after `name`, "" when none is left
NextProvider(name) ==
    CASE name = "tushare"   -> "tinyshare"
      [] name = "tinyshare" -> "akshare"
      [] OTHER              -> ""

\* initialize gives up on `name`: the next provider is tried, or the
\* exception leaves initialize and the tool returns its error text
GiveUp(th) ==
    IF NextProvider(th.name) = ""
    THEN [th EXCEPT !.pc = "done", !.name = ""]
    ELSE [th EXCEPT !.pc = "assign", !.name = NextProvider(th.name)]

\* The tool's head: `if not cache_manager or not getattr(cache_manager, "provider", None)`
ToolCheck(t) ==
    /\ t \in DOMAIN threads
    /\ threads[t].pc = "check"
    /\ threads' = [threads EXCEPT ![t] =
                       IF cache_manager.provider = NoProvider
                       THEN [@ EXCEPT !.pc = "assign", !.name = "tushare", !.entered = TRUE]
                       ELSE [@ EXCEPT !.pc = "get"]]
    /\ UNCHANGED <<request, mock, entry, probe, cache_manager, init_result, fetches, calls,
                   corpus, batches, items, merged, crawl, selected, article, published,
                   span_end, span, polled, yaml_file, DEFAULT_NEWS_CFG, _CFG_CACHE, gvars>>

\* _try_initialize_<name>, up to `self.provider = <Name>Provider(...)`: the
\* constructor issues the probe, and the instance is stored whatever it met
TryAssign(t) ==
    /\ t \in DOMAIN threads
    /\ threads[t].pc = "assign"
    /\ LET name == threads[t].name
       IN IF probe[name] = "unconfigured"
          THEN /\ threads' = [threads EXCEPT ![t] = GiveUp(@)]
               /\ UNCHANGED cache_manager
          ELSE /\ threads' = [threads EXCEPT ![t].pc = "test"]
               /\ cache_manager' =
                      [cache_manager EXCEPT
                          !.provider = Provider(name),
                          !.probed   = IF probe[name] = "no_client" THEN @ ELSE Append(@, name)]
    /\ UNCHANGED <<request, mock, entry, probe, init_result, fetches, calls,
                   corpus, batches, items, merged, crawl, selected, article, published,
                   span_end, span, polled, yaml_file, DEFAULT_NEWS_CFG, _CFG_CACHE, gvars>>

\* _try_initialize_<name>, from `if self.provider.is_available`: the attribute
\* is read from the registry again
TryTest(t) ==
    /\ t \in DOMAIN threads
    /\ threads[t].pc = "test"
    /\ IF cache_manager.provider.is_available
       THEN /\ cache_manager' = [cache_manager EXCEPT !.provider_type = threads[t].name]
            /\ threads' = [threads EXCEPT ![t].pc = "get", ![t].name = ""]
       ELSE /\ threads' = [threads EXCEPT ![t] = GiveUp(@)]
            /\ UNCHANGED cache_manager
    /\ UNCHANGED <<request, mock, entry, probe, init_result, fetches, calls,
                   corpus, batches, items, merged, crawl, selected, article, published,
                   span_end, span, polled, yaml_file, DEFAULT_NEWS_CFG, _CFG_CACHE, gvars>>

\* The tool's `provider = cache_manager.get_provider()`
ToolGetProvider(t) ==
    /\ t \in DOMAIN threads
    /\ threads[t].pc = "get"
    /\ threads' = [threads EXCEPT ![t].pc = "done",
                                  ![t].obtained = IF get_provider(cache_manager) = NoProvider
                                                  THEN <<>>
                                                  ELSE <<get_provider(cache_manager)>>]
    /\ UNCHANGED <<request, mock, entry, probe, cache_manager, init_result, fetches, calls,
                   corpus, batches, items, merged, crawl, selected, article, published,
                   span_end, span, polled, yaml_file, DEFAULT_NEWS_CFG, _CFG_CACHE, gvars>>

(* ------------------------ news configuration ------------------------- *)

\* _load_yaml: the mapping in the file, empty when there is no file
_load_yaml(file) == IF file.mtime = <<>> THEN NoYaml.data ELSE file.data

\* _deep_update(dst, src): a key of src replaces that of dst, except that a
\* mapping under a key whose value in dst is a mapping is merged into it
_deep_update(dst, src) ==
    [news_topk      |-> IF src.news_topk = <<>> THEN dst.news_topk ELSE src.news_topk[1],
     source_weights |-> IF src.source_weights = <<>> THEN dst.source_weights
                        ELSE src.source_weights[1] @@ dst.source_weights]

\* get_news_config: reload when the mtime differs from the cached one. The
\* copy of the defaults is shallow, so the mapping _deep_update merges into is
\* the one DEFAULT_NEWS_CFG holds
get_news_config ==
    /\ entry = "none"
    /\ IF _CFG_CACHE.mtime # yaml_file.mtime
       THEN LET cfg == _deep_update(DEFAULT_NEWS_CFG, _load_yaml(yaml_file))
            IN /\ DEFAULT_NEWS_CFG' =
                      [DEFAULT_NEWS_CFG EXCEPT !.source_weights = cfg.source_weights]
               /\ _CFG_CACHE' = [mtime |-> yaml_file.mtime, cfg |-> cfg]
       ELSE UNCHANGED <<DEFAULT_NEWS_CFG, _CFG_CACHE>>
    /\ UNCHANGED <<request, mock, entry, probe, cache_manager, init_result, fetches, calls,
                   corpus, batches, items, merged, crawl, selected, article, published,
                   span_end, span, threads, polled, yaml_file, gvars>>

\* How often the file is written
MaxWrites == 3

\* What an operator puts into the file: each key absent or overridden
YamlContents ==
    [news_topk      : {<<>>, <<5>>},
     source_weights : {<<>>, <<"Blog" :> 90>>, <<"CLS" :> 100>>}]

\* The operator saves the news YAML file
WriteYaml ==
    /\ entry = "none"
    /\ LET n == IF yaml_file.mtime = <<>> THEN 0 ELSE yaml_file.mtime[1]
       IN /\ n < MaxWrites
          /\ \E data \in YamlContents : yaml_file' = [mtime |-> <<n + 1>>, data |-> data]
    /\ UNCHANGED <<request, mock, entry, probe, cache_manager, init_result, fetches, calls,
                   corpus, batches, items, merged, crawl, selected, article, published,
                   span_end, span, threads, polled, DEFAULT_NEWS_CFG, _CFG_CACHE, gvars>>

(* -------------------------- data acquisition -------------------------- *)

\* TushareProvider._try_fallback_dates: max_days as fetch_moneyflow_cnt_ths_data passes it
FallbackDays == 5

\* What one call of an upstream API meets
Responses == {"raise", "empty", "rows"}

\* What ak.stock_hsgt_hist_em meets; "stale" is a table none of whose rows
\* lies in one of the windows the provider filters it by
AkResponses == {"raise", "empty", "rows", "stale"}

\* What the LLM of the summarizer does with a table: it answers, it selects
\* no column of the table, or its call raises
LLMOutcomes == {"ok", "no_columns", "raise"}

\* One upstream call as the log keeps it
Call(source, api, trade_date, response) ==
    [source |-> source, api |-> api, trade_date |-> trade_date, response |-> response]

\* The date arguments of an upstream call: one trade date (the string as
\* written, or the day `back` days before it) or a range ending on a day
TradeDate(date_str, back) == [fmt |-> date_str.fmt, day |-> date_str.day, back |-> back]
DateRange(date_str, back) == [fmt |-> "range", day |-> date_str.day, back |-> back]

\* A fetch hands back the table ("rows" or "empty") and the calls it issued
Fetched(table, log) == [table |-> table, calls |-> log]

\* TushareProvider._call_tushare_api: an exception of the client is logged and
\* an empty table handed back
_call_tushare_api(response) == IF response = "rows" THEN "rows" ELSE "empty"

\* TushareProvider._get_date_range: end_date_str (today for an absent or
\* unreadable end_date)
_get_date_range(end_date) ==
    IF end_date.fmt \in {"%Y%m%d", "%Y-%m-%d", "%Y/%m/%d"}
    THEN DateStr("%Y%m%d", end_date.day)
    ELSE DateStr("%Y%m%d", Today)

\* TushareProvider._try_fallback_dates, from the i-th day back on
RECURSIVE FallbackFrom(_, _, _, _, _)
FallbackFrom(api_method, start_date, i, max_days, up) ==
    IF i > max_days THEN Fetched("empty", <<>>)
    ELSE LET call == Call("tushare", api_method, TradeDate(start_date, i), up[i])
             rest == FallbackFrom(api_method, start_date, i + 1, max_days, up)
         IN IF _call_tushare_api(up[i]) = "rows"
            THEN Fetched("rows", <<call>>)
            ELSE Fetched(rest.table, <<call>> \o rest.calls)

\* TushareProvider._try_fallback_dates: strptime(start_date, '%Y%m%d') raises
\* on every other format and the handler returns an empty table
_try_fallback_dates(api_method, start_date, max_days, up) ==
    IF start_date.fmt # "%Y%m%d" THEN Fetched("empty", <<>>)
    ELSE FallbackFrom(api_method, start_date, 1, max_days, up)

\* TushareProvider.fetch_fina_indicator_data / fetch_daily_basic_data /
\* fetch_dividend_data ...: one call of the API named like the interface
fetch_daily_basic_data(api, stock_code, end_date, up) ==
    Fetched(_call_tushare_api(up[api]),
            <<Call("tushare", api, DateRange(_get_date_range(end_date), 0), up[api])>>)

\* TushareProvider.fetch_top_list_data
fetch_top_list_data(stock_code, end_date, up) ==
    LET trade_date == IF end_date # NoDate THEN end_date ELSE _get_date_range(end_date)
    IN Fetched(_call_tushare_api(up.top_list),
               <<Call("tushare", "top_list", TradeDate(trade_date, 0), up.top_list)>>)

\* TushareProvider.fetch_moneyflow_ind_dc_data
fetch_moneyflow_ind_dc_data(stock_code, end_date, up) ==
    LET dates == IF end_date # NoDate THEN TradeDate(end_date, 0)
                 ELSE DateRange(_get_date_range(NoDate), 0)
    IN Fetched(_call_tushare_api(up.moneyflow_ind_dc),
               <<Call("tushare", "moneyflow_ind_dc", dates, up.moneyflow_ind_dc)>>)

\* TushareProvider.fetch_moneyflow_cnt_ths_data
fetch_moneyflow_cnt_ths_data(stock_code, end_date, up) ==
    LET ind_dc     == fetch_moneyflow_ind_dc_data(stock_code, end_date, up)
        trade_date == IF end_date # NoDate THEN end_date ELSE _get_date_range(end_date)
        first      == Call("tushare", "moneyflow_cnt_ths", TradeDate(trade_date, 0),
                           up.moneyflow_cnt_ths[0])
        fallback   == _try_fallback_dates("moneyflow_cnt_ths", trade_date, FallbackDays,
                                          up.moneyflow_cnt_ths)
    IN IF ind_dc.table = "rows" THEN ind_dc
       ELSE IF _call_tushare_api(up.moneyflow_cnt_ths[0]) = "rows"
            THEN Fetched("rows", ind_dc.calls \o <<first>>)
            ELSE Fetched(fallback.table, ind_dc.calls \o <<first>> \o fallback.calls)

\* TushareProvider.fetch_moneyflow_hsgt_data: akshare first, tushare when
\* akshare gave nothing that survives the window filter
fetch_moneyflow_hsgt_data(end_date, up) ==
    LET ak       == Call("akshare", "stock_hsgt_hist_em", DateRange(_get_date_range(end_date), 0),
                         up.akshare)
        ak_rows  == up.akshare = "rows" \/ (up.akshare = "stale" /\ end_date = NoDate)
        shifted  == IF end_date.fmt = "%Y%m%d" /\ end_date.day = Today THEN 1 ELSE 0
        ts       == Call("tushare", "moneyflow_hsgt", DateRange(_get_date_range(end_date), shifted),
                         up.moneyflow_hsgt)
    IN IF ak_rows THEN Fetched("rows", <<ak>>)
       ELSE Fetched(_call_tushare_api(up.moneyflow_hsgt), <<ak, ts>>)

\* stock_tools: the markers by which a summary is taken for an error
ErrorMarkers ==
    {"report generation failed", "summary generation failed", "data fetch failed", "Error code:"}

\* The label the summaries open with
Label(objective) == "[" \o objective \o "]"

\* DataProcessor.process_and_summarize
process_and_summarize(objective, llm) ==
    IF llm = "no_columns" THEN <<Label(objective), ": no relevant columns">>
    ELSE IF llm = "raise" THEN <<Label(objective), "\n", "summary generation failed", ": e">>
    ELSE <<Label(objective), "\n", "summary of " \o objective>>

\* DataProcessor._analyze_fund_table
_analyze_fund_table(objective, llm) ==
    IF llm = "no_columns" THEN <<Label(objective), ": no relevant columns">>
    ELSE IF llm = "raise" THEN <<"report generation failed", ": e">>
    ELSE <<"fund report on " \o objective>>

\* _process_data_type: date_range of the summary of an empty table
date_range(end_date) ==
    IF end_date # NoDate
    THEN IF end_date.fmt = "%Y%m%d"
         THEN end_date.day \o "-730d" \o " to " \o end_date.day
         ELSE "within the given date range"
    ELSE "the last two years"

\* _process_data_type: data_fetch_methods, the fetch of one interface
data_fetch_methods(dtype, stock_code, end_date, up) ==
    CASE dtype = "top_list"          -> fetch_top_list_data(stock_code, end_date, up)
      [] dtype = "moneyflow_cnt_ths" -> fetch_moneyflow_cnt_ths_data(stock_code, end_date, up)
      [] dtype = "moneyflow_hsgt"    -> fetch_moneyflow_hsgt_data(end_date, up)
      [] OTHER                       -> fetch_daily_basic_data(dtype, stock_code, end_date, up)

\* _process_data_type: [summary, raw] and the upstream calls behind it
_process_data_type(dtype, objective, stock_code, end_date, up, llm) ==
    LET df == data_fetch_methods(dtype, stock_code, end_date, up)
    IN IF df.table = "rows"
       THEN [summary |-> process_and_summarize(objective, llm), raw |-> <<"row">>,
             calls |-> df.calls]
       ELSE [summary |-> <<Label(objective), ": between ", date_range(end_date), " ",
                           objective, " data is empty">>,
             raw |-> <<>>, calls |-> df.calls]

\* _process_fund_data_with_llm
_process_fund_data_with_llm(dtype, objective, stock_code, end_date, up, llm) ==
    LET df == data_fetch_methods(dtype, stock_code, end_date, up)
    IN IF df.table = "rows"
       THEN [summary |-> <<Label(objective), "\n">> \o _analyze_fund_table(objective, llm),
             raw |-> <<"row">>, calls |-> df.calls]
       ELSE [summary |-> <<Label(objective), ": ", date_range(end_date), " ",
                           objective, " data is empty">>,
             raw |-> <<>>, calls |-> df.calls]

\* Variant of the status test that takes every summary without rows for an error
InterfaceStatus_rows_only(payload) == IF payload.raw = <<>> THEN "error" ELSE "success"

\* get_fundamental_data / get_fund_data: the status of an interface
InterfaceStatus(payload) ==
    IF \E i \in 1..Len(payload.summary) : payload.summary[i] \in ErrorMarkers
    THEN "error" ELSE "success"

\* get_fundamental_data / get_fund_data: interface_results[dtype]
InterfaceResult(objective, payload) ==
    [objective |-> objective, result |-> payload.summary, raw |-> payload.raw,
     status |-> InterfaceStatus(payload)]

\* get_fundamental_data / get_fund_data: final_result
final_result(analysis_type, results_by_dtype) ==
    [analysis_type |-> analysis_type,
     interfaces    |-> results_by_dtype,
     summary       |->
        [total_interfaces      |-> Cardinality(DOMAIN results_by_dtype),
         successful_interfaces |->
            Cardinality({d \in DOMAIN results_by_dtype : results_by_dtype[d].status = "success"}),
         error_interfaces      |->
            Cardinality({d \in DOMAIN results_by_dtype : results_by_dtype[d].status = "error"})]]

\* The fundamental interfaces of a modelled call and their objectives
FundamentalTypes == {data_objectives[k].dtype : k \in FundInterfaces}
ObjectiveOf(dtype) ==
    LET k == CHOOSE j \in 1..Len(data_objectives) : data_objectives[j].dtype = dtype
    IN data_objectives[k].objective

\* get_fund_data: fund_data_objectives (the single-trade-date interfaces and
\* the northbound interface of the twelve)
fund_data_objectives ==
    [top_list          |-> "top list daily statistics",
     moneyflow_cnt_ths |-> "sector main capital flow",
     moneyflow_hsgt    |-> "northbound capital"]

\* What the upstream APIs answer during one call of a tool
FundamentalUpstreams == [FundamentalTypes -> Responses]
FundUpstreams ==
    [top_list          : Responses,
     moneyflow_ind_dc  : Responses,
     moneyflow_cnt_ths : [0..FallbackDays -> Responses],
     akshare           : AkResponses,
     moneyflow_hsgt    : Responses]

\* get_fundamental_data, from the provider of the registry on
FundamentalDataTool ==
    /\ entry = "none"
    /\ get_provider(cache_manager) # NoProvider
    /\ calls = <<>>
    /\ \E up \in FundamentalUpstreams, llm \in [FundamentalTypes -> LLMOutcomes] :
        LET payload == [d \in FundamentalTypes |->
                            _process_data_type(d, ObjectiveOf(d), request.stock_code,
                                               request.end_date, up, llm[d])]
            interfaces == [d \in FundamentalTypes |-> InterfaceResult(ObjectiveOf(d), payload[d])]
        IN /\ calls' = [d \in FundamentalTypes |-> payload[d].calls]
           /\ files' = save_tool_result(files, request.stock_code, "fundamental_data",
                                        Dict(final_result("fundamental data analysis", interfaces)),
                                        request.end_date)
    /\ UNCHANGED <<request, mock, entry, probe, cache_manager, init_result, fetches,
                   corpus, batches, items, merged, xvars, graph, tasks, status, runs, state, writes, failed, prompt, stream, gen, task>>

\* get_fund_data, from the provider of the registry on
FundDataTool ==
    /\ entry = "none"
    /\ get_provider(cache_manager) # NoProvider
    /\ calls = <<>>
    /\ \E up \in FundUpstreams, llm \in LLMOutcomes :
        LET payload == [d \in DOMAIN fund_data_objectives |->
                            _process_fund_data_with_llm(d, fund_data_objectives[d],
                                                        request.stock_code, request.end_date,
                                                        up, llm)]
            interfaces == [d \in DOMAIN fund_data_objectives |->
                            InterfaceResult(fund_data_objectives[d], payload[d])]
        IN /\ calls' = [d \in DOMAIN fund_data_objectives |-> payload[d].calls]
           /\ files' = save_tool_result(files, request.stock_code, "fund_data",
                                        Dict(final_result("fund flow data analysis", interfaces)),
                                        request.end_date)
    /\ UNCHANGED <<request, mock, entry, probe, cache_manager, init_result, fetches,
                   corpus, batches, items, merged, xvars, graph, tasks, status, runs, state, writes, failed, prompt, stream, gen, task>>

(* ---------------------------- news batching --------------------------- *)

\* A formatted news row: how many characters it has and how many of them are CJK
Part(len, cjk) == [len |-> len, cjk |-> cjk]

RECURSIVE Chars(_, _)
Chars(parts, field) ==
    IF parts = <<>> THEN 0 ELSE Head(parts)[field] + Chars(Tail(parts), field)

\* len(sep.join(parts)) for a separator of sep characters
JoinedLen(parts, sep) ==
    IF parts = <<>> THEN 0 ELSE Chars(parts, "len") + sep * (Len(parts) - 1)

\* Variant of the packing that closes a batch after every part
Pack_one_part_per_batch(parts, i, max_chars, buf, cur) ==
    [k \in 1..(Len(parts) - i + 1) |-> <<parts[i + k - 1]>>]

\* _batch_strings_by_chars from part i on, buf being the open batch and cur its
\* length; a batch is kept as the parts that "\n\n".join makes its text of
RECURSIVE Pack(_, _, _, _, _)
Pack(parts, i, max_chars, buf, cur) ==
    IF i > Len(parts)
    THEN IF buf = <<>> THEN <<>> ELSE <<buf>>
    ELSE LET p_len == parts[i].len
         IN IF buf = <<>>
            THEN Pack(parts, i + 1, max_chars, <<parts[i]>>, p_len)
            ELSE IF cur + 2 + p_len <= max_chars
                 THEN Pack(parts, i + 1, max_chars, Append(buf, parts[i]), cur + 2 + p_len)
                 ELSE <<buf>> \o Pack(parts, i + 1, max_chars, <<parts[i]>>, p_len)

_batch_strings_by_chars(parts, max_chars) == Pack(parts, 1, max_chars, <<>>, 0)

\* How many parts _calc_batch_char_cap samples
SampleParts == 20

\* _cjk_ratio(sample) >= 0.2, the sample being "\n".join of the sampled parts
CjkHeavy(sample_parts) ==
    LET sample == SubSeq(sample_parts, 1,
                         IF Len(sample_parts) < SampleParts THEN Len(sample_parts)
                         ELSE SampleParts)
        total == JoinedLen(sample, 1)
    IN total > 0 /\ 5 * Chars(sample, "cjk") >= total

prompt_tokens == 1200

output_tokens == 1500

MinTokenBudget == 8000

MaxBatchChars == 38000

MinBatchChars == 4000

\* _calc_batch_char_cap; input_ratio is in hundredths, and chars_per_token
\* (1.0 or 3.2) and the 0.95 margin are applied in thousandths
_calc_batch_char_cap(sample_parts, model_max_tokens, input_ratio) ==
    LET chars_per_token == IF CjkHeavy(sample_parts) THEN 10 ELSE 32
        budget == ((model_max_tokens * input_ratio) \div 100) - prompt_tokens - output_tokens
        input_token_budget == IF budget > MinTokenBudget THEN budget ELSE MinTokenBudget
        cap == (input_token_budget * chars_per_token * 95) \div 1000
        capped == IF cap < MaxBatchChars THEN cap ELSE MaxBatchChars
    IN IF capped > MinBatchChars THEN capped ELSE MinBatchChars

\* analyze_news_batched over the formatted rows of its table: no rows, no
\* batch; otherwise one LLM call per batch of _batch_strings_by_chars
AnalyzeNewsBatched ==
    /\ entry = "none"
    /\ batches.status = "idle"
    /\ batches' =
        IF corpus.parts = <<>>
        THEN [status |-> "no_data", max_chars |-> 0, list |-> <<>>]
        ELSE LET max_chars ==
                    IF corpus.max_chars = <<>>
                    THEN _calc_batch_char_cap(corpus.parts, corpus.model_max_tokens,
                                              corpus.input_ratio)
                    ELSE corpus.max_chars[1]
             IN [status    |-> "done",
                 max_chars |-> max_chars,
                 list      |-> _batch_strings_by_chars(corpus.parts, max_chars)]
    /\ UNCHANGED <<request, mock, entry, probe, cache_manager, init_result, fetches, calls,
                   corpus, items, merged, xvars, gvars>>

(* --------------------------- news aggregation ------------------------- *)

\* A title is a sequence of characters: letters, digits, whitespace,
\* punctuation, and the words "filler" (one of the two filler words the key
\* drops) and "notice" (a priority keyword), each taken as one character
Upper == [A |-> "a", B |-> "b"]

Digits == {"1", "2"}

Whitespace == {" "}

\* The characters of _title_strip_re
TitleStrip == Whitespace \cup {"-", ":"}

\* How many characters of a class the text begins with
RECURSIVE RunLen(_, _)
RunLen(t, class) ==
    IF t = <<>> \/ Head(t) \notin class THEN 0 ELSE 1 + RunLen(Tail(t), class)

Drop(t, n) == SubSeq(t, n + 1, Len(t))

\* str.lower
lower(t) == [i \in 1..Len(t) |-> IF t[i] \in DOMAIN Upper THEN Upper[t[i]] ELSE t[i]]

\* str.strip
RECURSIVE rstrip(_)
rstrip(t) ==
    IF t = <<>> \/ t[Len(t)] \notin Whitespace THEN t ELSE rstrip(SubSeq(t, 1, Len(t) - 1))

strip(t) == rstrip(Drop(t, RunLen(t, Whitespace)))

\* re.sub of a run of at least least characters of the class by repl
RECURSIVE sub(_, _, _, _)
sub(t, class, least, repl) ==
    IF t = <<>> THEN <<>>
    ELSE LET n == RunLen(t, class)
         IN IF n >= least
            THEN repl \o sub(Drop(t, n), class, least, repl)
            ELSE IF n > 0
                 THEN SubSeq(t, 1, n) \o sub(Drop(t, n), class, least, repl)
                 ELSE <<Head(t)>> \o sub(Tail(t), class, least, repl)

\* str.replace(word, "")
replace(t, word) == SelectSeq(t, LAMBDA c : c # word)

_canonical_event_key(title) ==
    IF title = <<>> THEN <<>>
    ELSE LET t1 == lower(strip(title))
             t2 == sub(t1, Digits, 2, <<>>)
             t3 == sub(t2, TitleStrip, 1, <<" ">>)
             t4 == sub(t3, Whitespace, 1, <<" ">>)
         IN strip(replace(t4, "filler"))

\* An article URL: its domain and the rest of it
Url(domain, path) == [domain |-> domain, path |-> path]

NoUrl == Url("", 0)

domain_aliases == [cls_cn |-> "Cailianshe"]

source_aliases == [CLS |-> "Cailianshe", Cailianshe |-> "Cailianshe"]

normalize_source_name(source, url) ==
    IF url.domain \in DOMAIN domain_aliases THEN domain_aliases[url.domain]
    ELSE IF source \in DOMAIN source_aliases THEN source_aliases[source]
    ELSE source

\* _source_weight in hundredths: 1.15 for the weighted source and for its domain
_source_weight(source, url) ==
    IF normalize_source_name(source, url) = "Cailianshe" \/ url.domain = "cls_cn"
    THEN 115 ELSE 100

\* The key of the event group of an item: the canonical title, or the URL
\* of an item whose canonical title is empty
EventKey_title_only(it) == [title |-> _canonical_event_key(it.title), url |-> NoUrl]

EventKey(it) ==
    IF _canonical_event_key(it.title) # <<>>
    THEN [title |-> _canonical_event_key(it.title), url |-> NoUrl]
    ELSE [title |-> <<>>, url |-> it.url]

\* groups: the keys in the order of their first item, and the items of a key
RECURSIVE GroupKeys(_)
GroupKeys(its) ==
    IF its = <<>> THEN <<>>
    ELSE LET rest == GroupKeys(SubSeq(its, 1, Len(its) - 1))
             key  == EventKey(its[Len(its)])
         IN IF \E i \in 1..Len(rest) : rest[i] = key THEN rest ELSE Append(rest, key)

Group(its, key) == SelectSeq(its, LAMBDA it : EventKey(it) = key)

\* _score: (priority keyword in the title, publication time, source weight)
_score(x) ==
    <<IF \E i \in 1..Len(x.title) : x.title[i] = "notice" THEN 1 ELSE 0,
      x.published_at,
      _source_weight(normalize_source_name(x.source, x.url), x.url)>>

Above(a, b) ==
    \/ a[1] > b[1]
    \/ a[1] = b[1] /\ a[2] > b[2]
    \/ a[1] = b[1] /\ a[2] = b[2] /\ a[3] > b[3]

\* sorted(arr, key=_score, reverse=True)[0]: the first item no other is above
Representative(arr) ==
    LET best == CHOOSE i \in 1..Len(arr) :
                    /\ \A j \in 1..Len(arr) : ~Above(_score(arr[j]), _score(arr[i]))
                    /\ \A j \in 1..(i - 1) : Above(_score(arr[i]), _score(arr[j]))
    IN arr[best]

\* The values of the list without the empty one and without repetitions, in
\* the order of their first occurrence
RECURSIVE Distinct(_, _)
Distinct(list, empty) ==
    IF list = <<>> THEN <<>>
    ELSE LET rest == Distinct(SubSeq(list, 1, Len(list) - 1), empty)
             v    == list[Len(list)]
         IN IF v = empty \/ \E i \in 1..Len(rest) : rest[i] = v THEN rest ELSE Append(rest, v)

MergedItem(arr) ==
    LET rep == Representative(arr)
    IN [title        |-> rep.title,
        url          |-> rep.url,
        source       |-> rep.source,
        published_at |-> rep.published_at,
        sources      |-> Distinct([i \in 1..Len(arr) |->
                                      normalize_source_name(arr[i].source, arr[i].url)], ""),
        urls         |-> Distinct([i \in 1..Len(arr) |-> arr[i].url], NoUrl)]

\* The event aggregation of _process_news_with_crawl4ai
AggregateEvents ==
    /\ entry = "none"
    /\ items # <<>>
    /\ merged = <<>>
    /\ merged' = LET keys == GroupKeys(items)
                 IN [k \in 1..Len(keys) |-> MergedItem(Group(items, keys[k]))]
    /\ UNCHANGED <<request, mock, entry, probe, cache_manager, init_result, fetches, calls,
                   corpus, batches, items, xvars, gvars>>

(* ---------------------------- news selection -------------------------- *)

\* An enriched item; times are in days, and published_at is <<>> when no
\* time was resolved for the item
EnrichedItem(id, priority, published_at, impact) ==
    [id |-> id, priority |-> priority, published_at |-> published_at, impact |-> impact]

\* The default of lookback_days
lookback_days == 7

\* Tuples of numbers in the order Python compares them
RECURSIVE TupleLess(_, _)
TupleLess(a, b) ==
    /\ a # <<>>
    /\ \/ Head(a) < Head(b)
       \/ Head(a) = Head(b) /\ TupleLess(Tail(a), Tail(b))

\* list.sort(key=...): stable, the list being given with the key of each item
RECURSIVE SortedByKey(_)
SortedByKey(keyed) ==
    IF keyed = <<>> THEN <<>>
    ELSE LET rest == SortedByKey(SubSeq(keyed, 1, Len(keyed) - 1))
             x    == keyed[Len(keyed)]
             k    == Cardinality({i \in 1..Len(rest) : ~TupleLess(x.key, rest[i].key)})
         IN SubSeq(rest, 1, k) \o <<x>> \o SubSeq(rest, k + 1, Len(rest))

Unkeyed(keyed) == [i \in 1..Len(keyed) |-> keyed[i].item]

\* enriched.sort: priority first, then the later time (start_dt for an item
\* without one), then the higher impact
SortEnriched(enriched, start_dt) ==
    Unkeyed(SortedByKey([i \in 1..Len(enriched) |->
        [item |-> enriched[i],
         key  |-> <<IF enriched[i].priority THEN 0 ELSE 1,
                    0 - (IF enriched[i].published_at = <<>> THEN start_dt
                         ELSE enriched[i].published_at[1]),
                    0 - enriched[i].impact>>]]))

\* recent_items: the items with a time at or after the cutoff
RecentItems(enriched, cutoff_dt) ==
    SelectSeq(enriched, LAMBDA it : it.published_at # <<>> /\ it.published_at[1] >= cutoff_dt)

\* recent_items.sort(key=time, reverse=True): stable as well
SortRecent(recent_items) ==
    Unkeyed(SortedByKey([i \in 1..Len(recent_items) |->
        [item |-> recent_items[i], key |-> <<0 - recent_items[i].published_at[1]>>]]))

items_selected(enriched, end_dt, window_days, topk) ==
    Prefix(SortRecent(RecentItems(SortEnriched(enriched, end_dt - lookback_days),
                                  end_dt - window_days)),
           topk)

\* The ordering and the selection of _process_news_with_crawl4ai
SelectNews ==
    /\ entry = "none"
    /\ ~selected.done
    /\ selected' = [done |-> TRUE,
                    list |-> items_selected(crawl.items, crawl.end_dt,
                                            crawl.news_window_days, crawl.news_topk)]
    /\ UNCHANGED <<request, mock, entry, probe, cache_manager, init_result, fetches, calls,
                   corpus, batches, items, merged, crawl, article, published, span_end, span, yvars,
                   gvars>>

(* ---------------------------- time resolution ------------------------- *)

\* Times are in minutes; a signal is <<>> when the article does not carry it.
\* The structured field holds <<t>>, or <<-1>> for a value no format parses
NoTimeFormat == <<0 - 1>>

\* _parse_any_dt_cn of a signal
_parse_any_dt_cn(val) == IF val = NoTimeFormat THEN <<>> ELSE val

\* re.search of the visible-text pattern: the pattern holds the range "\\-/",
\* so compiling it raises re.error whatever the text is
visible_search(raw_text) == [raised |-> TRUE, match |-> <<>>]

\* _parse_dt_from_url
_parse_dt_from_url(url) == url

\* The minutes of the units of a relative expression
UnitMinutes == [minute |-> 1, hour |-> 60, day |-> 1440, month |-> 43200]

\* _infer_relative_time of an expression <<unit, n>>
_infer_relative_time(text, ref_dt) ==
    IF text = <<>> THEN <<>> ELSE <<ref_dt - text[2] * UnitMinutes[text[1]]>>

\* _extract_publish_time_and_text: published_at, "" (here <<>>) when both
\* attempts at the page raised
_extract_publish_time_and_text(art) ==
    IF art.fetch = "raise" THEN <<>>
    ELSE LET schema == _parse_any_dt_cn(art.structured)
             found  == visible_search(art.visible)
             text   == IF schema # <<>> THEN schema
                       ELSE IF found.raised THEN <<>>
                       ELSE _parse_any_dt_cn(found.match)
         IN IF text # <<>> THEN text ELSE _parse_dt_from_url(art.url)

\* The published_at of an item: the date of its URL first, overwritten by
\* what the article page gives, and the relative expression of its snippet last
published_at(art) ==
    LET prelim_pt == _parse_dt_from_url(art.url)
        pub       == _extract_publish_time_and_text(art)
        paged     == IF pub # <<>> THEN pub ELSE prelim_pt
    IN IF paged # <<>> THEN paged ELSE _infer_relative_time(art.relative, art.end_dt)

ResolveTime ==
    /\ entry = "none"
    /\ ~published.done
    /\ published' = [done |-> TRUE, published_at |-> published_at(article)]
    /\ UNCHANGED <<request, mock, entry, probe, cache_manager, init_result, fetches, calls,
                   corpus, batches, items, merged, crawl, selected, article, span_end, span, yvars,
                   gvars>>

(* ----------------------------- date windows --------------------------- *)

\* Calendar dates, and the day count of datetime (toordinal)
Date(year, month, day) == [year |-> year, month |-> month, day |-> day]

IsLeap(year) == year % 4 = 0 /\ (year % 100 # 0 \/ year % 400 = 0)

DaysInMonth(year, month) ==
    IF month = 2 THEN (IF IsLeap(year) THEN 29 ELSE 28)
    ELSE IF month \in {4, 6, 9, 11} THEN 30 ELSE 31

IsDate(date) == date.month \in 1..12 /\ date.day \in 1..DaysInMonth(date.year, date.month)

DaysBeforeYear(year) ==
    365 * (year - 1) + ((year - 1) \div 4) - ((year - 1) \div 100) + ((year - 1) \div 400)

RECURSIVE DaysBeforeMonth(_, _)
DaysBeforeMonth(year, month) ==
    IF month = 1 THEN 0
    ELSE DaysBeforeMonth(year, month - 1) + DaysInMonth(year, month - 1)

toordinal(date) == DaysBeforeYear(date.year) + DaysBeforeMonth(date.year, date.month) + date.day

fromordinal(n) ==
    LET year  == CHOOSE y \in 1..9999 : DaysBeforeYear(y) < n /\ n <= DaysBeforeYear(y + 1)
        rest  == n - DaysBeforeYear(year)
        month == CHOOSE m \in 1..12 :
                    /\ DaysBeforeMonth(year, m) < rest
                    /\ rest <= DaysBeforeMonth(year, m) + DaysInMonth(year, m)
    IN Date(year, month, rest - DaysBeforeMonth(year, month))

\* date - timedelta(days=n)
MinusDays(date, n) == fromordinal(toordinal(date) - n)

\* TushareProvider._get_date_range: the start of the range of a fetch
fetch_start(end_date) ==
    IF end_date.fmt \in {"%Y%m%d", "%Y-%m-%d", "%Y/%m/%d"}
    THEN <<MinusDays(end_date.date, 365 * 2)>>
    ELSE <<>>

\* _process_data_type: the start written into the summary of an empty table,
\* <<>> where the summary names no date
summary_start(end_date) ==
    IF end_date.fmt = "%Y%m%d" THEN <<MinusDays(end_date.date, 365 * 2)>> ELSE <<>>

\* ResultManager._get_analysis_period: the start of analysis_period, <<>>
\* where replace(year=...) raises and the period reads "the last two years"
_get_analysis_period(end_date) ==
    LET start_dt == Date(end_date.date.year - 2, end_date.date.month, end_date.date.day)
    IN IF IsDate(start_dt) THEN <<start_dt>> ELSE <<>>

\* A fetch whose table is empty, and the save of its result
ComputeWindow ==
    /\ entry = "none"
    /\ ~span.done
    /\ span' = [done            |-> TRUE,
                fetch           |-> fetch_start(span_end),
                summary         |-> summary_start(span_end),
                analysis_period |-> _get_analysis_period(span_end)]
    /\ UNCHANGED <<request, mock, entry, probe, cache_manager, init_result, fetches, calls,
                   corpus, batches, items, merged, crawl, selected, article, published,
                   span_end, yvars, gvars>>

(* --------------------------- specifications --------------------------- *)

InitRun ==
    /\ files = <<>>
    /\ graph = "init"
    /\ tasks = {}
    /\ status = [n \in Nodes |-> "idle"]
    /\ runs = [n \in Nodes |-> 0]
    /\ state = <<>>
    /\ writes = <<>>
    /\ failed = {}
    /\ prompt = <<>>
    /\ stream = <<>>
    /\ gen = "idle"
    /\ task = [status |-> "pending", result |-> <<>>]

NodeStep ==
    \/ start_node
    \/ run_fundamental_analysis(chain_invoke("fundamental_analysis"))
    \/ run_news_analysis(chain_invoke("news_analysis"))
    \/ run_sentiment_analysis(chain_invoke("sentiment_analysis"))
    \/ run_technical_analysis(chain_invoke("technical_analysis"))
    \/ run_fund_analysis(chain_invoke("fund_analysis"))
    \/ run_supervisor(chain_invoke("supervisor"))
    \/ final_result_save
    \/ EndSuperstep

\* The answers of LLMs that follow their prompts: the document in a fence
WellFormed ==
    [analyst    |-> Content("full", TRUE, FALSE, 300),
     supervisor |-> Content("full", TRUE, FALSE, 300)]

\* The graph run started as a background task
Init ==
    /\ request \in [stock_code : {Symbol}, end_date : EndDates]
    /\ mock \in [news : NewsMocks, fundamental : FundamentalMocks, raises : RaiseSets,
                 content : {WellFormed}]
    /\ entry = "background"
    /\ RegistryReady
    /\ InitRun
    /\ NewsIdle

Next ==
    \/ BackgroundStart
    \/ NodeStep
    \/ BackgroundFinish
    \/ BackgroundResult

Spec == Init /\ [][Next]_vars

\* The graph run consumed by the event stream generator
StreamMocks ==
    {[news        |-> [kind |-> "ok", variant |-> [k \in 1..Len(news_data_objectives) |-> "a"]],
      fundamental |-> [kind |-> "ok", variant |-> [k \in FundInterfaces |-> "a"],
                       order |-> [k \in FundInterfaces |-> k]],
      raises      |-> r,
      content     |-> WellFormed] : r \in RaiseSets}

InitStream ==
    /\ request = [stock_code |-> Symbol, end_date |-> NoDate]
    /\ mock \in StreamMocks
    /\ entry = "stream"
    /\ RegistryReady
    /\ InitRun
    /\ NewsIdle

NextStream ==
    \/ GeneratorStart
    \/ NodeStep
    \/ GeneratorExcept
    \/ GeneratorFinally

SpecStream == InitStream /\ [][NextStream]_vars

\* The background task and a client that polls it
InitTask ==
    /\ request = [stock_code |-> Symbol, end_date |-> NoDate]
    /\ mock \in StreamMocks
    /\ entry = "background"
    /\ RegistryReady
    /\ InitRun
    /\ NewsIdle

NextTask ==
    \/ BackgroundStart
    \/ NodeStep
    \/ BackgroundFinish
    \/ BackgroundResult
    \/ get_task_status

SpecTask == InitTask /\ [][NextTask]_vars

\* The provider registry and the tools that fetch through it
InitRegistry ==
    /\ request = [stock_code |-> Symbol, end_date |-> NoDate]
    /\ mock \in StreamMocks /\ mock.raises = {}
    /\ entry = "none"
    /\ probe \in ProbeOutcomes
    /\ cache_manager = NewCacheManager
    /\ init_result = "none"
    /\ fetches = <<>>
    /\ calls = <<>>
    /\ InitRun
    /\ NewsIdle

NextRegistry ==
    \/ ImportInitialize
    \/ \E tool \in {"get_fundamental_data", "get_tech_data", "get_fund_data"} : ToolFetch(tool)

SpecRegistry == InitRegistry /\ [][NextRegistry]_vars

\* Analyst tools started on concurrent threads while the registry holds no
\* provider
InitThreads ==
    /\ request = [stock_code |-> Symbol, end_date |-> NoDate]
    /\ mock \in StreamMocks /\ mock.raises = {}
    /\ entry = "none"
    /\ probe \in ProbeOutcomes
    /\ cache_manager = NewCacheManager
    /\ init_result = "none"
    /\ fetches = <<>>
    /\ calls = <<>>
    /\ InitRun
    /\ corpus = NoCorpus
    /\ batches = NoBatches
    /\ items = <<>>
    /\ merged = <<>>
    /\ crawl = NoCrawl
    /\ selected = NotSelected
    /\ article = NoArticle
    /\ published = NotPublished
    /\ WindowIdle
    /\ threads = [t \in Threads |-> ThreadStart]
    /\ polled = <<>>
    /\ yaml_file = NoYaml
    /\ DEFAULT_NEWS_CFG = BuiltinDefaults
    /\ _CFG_CACHE = NewCfgCache

NextThreads ==
    \E t \in Threads :
        \/ ToolCheck(t)
        \/ TryAssign(t)
        \/ TryTest(t)
        \/ ToolGetProvider(t)

SpecThreads == InitThreads /\ [][NextThreads]_vars

\* The crawler's configuration as the module defines it, no file yet
InitConfig ==
    /\ request = [stock_code |-> Symbol, end_date |-> NoDate]
    /\ mock \in StreamMocks /\ mock.raises = {}
    /\ entry = "none"
    /\ RegistryReady
    /\ InitRun
    /\ NewsIdle

NextConfig ==
    \/ WriteYaml
    \/ get_news_config

SpecConfig == InitConfig /\ [][NextConfig]_vars

\* The tools that fetch through a registry whose provider is tushare
InitFetch ==
    /\ request \in [stock_code : {Symbol}, end_date : EndDates]
    /\ mock \in StreamMocks /\ mock.raises = {}
    /\ entry = "none"
    /\ RegistryReady
    /\ InitRun
    /\ NewsIdle

NextFetch ==
    \/ FundamentalDataTool
    \/ FundDataTool

SpecFetch == InitFetch /\ [][NextFetch]_vars

\* The answers the LLMs of a run may give
AnalystContents ==
    {Content(json, TRUE, TRUE, 300) : json \in AnalystShapes \ {"text"}}
    \cup {Content("full", FALSE, prose, 300) : prose \in BOOLEAN}
    \cup {Content("text", FALSE, FALSE, n) :
            n \in {5, SentinelChars - 1, SentinelChars, SentinelChars + 1}}

SupervisorContents ==
    {Content(json, TRUE, TRUE, 300) : json \in SupervisorShapes \ {"text"}}
    \cup {Content("full", FALSE, TRUE, 300)}
    \cup {Content("text", FALSE, FALSE, n) : n \in {5, SentinelChars + 1}}

\* A run whose providers deliver and whose LLM calls return: every answer of
\* the analysts with a well-formed supervisor, every answer of the supervisor
\* over well-formed and over unreadable analysts
ParseMocks ==
    {[news        |-> [kind |-> "ok", variant |-> [k \in 1..Len(news_data_objectives) |-> "a"]],
      fundamental |-> [kind |-> "ok", variant |-> [k \in FundInterfaces |-> "a"],
                       order |-> [k \in FundInterfaces |-> k]],
      raises      |-> {},
      content     |-> c] :
        c \in [analyst : AnalystContents, supervisor : {WellFormed.supervisor}]
              \cup [analyst : {WellFormed.analyst, Content("text", FALSE, FALSE, 5)},
                    supervisor : SupervisorContents]}

\* The graph run over the answers of the LLMs
InitParse ==
    /\ request = [stock_code |-> Symbol, end_date |-> DateStr("%Y%m%d", "d2")]
    /\ mock \in ParseMocks
    /\ entry = "background"
    /\ RegistryReady
    /\ InitRun
    /\ NewsIdle

SpecParse == InitParse /\ [][Next]_vars

\* How many rows a news table has at most
MaxParts == 3

\* The rows: a short one without CJK characters, two that fill the smallest
\* cap together or miss it by one, and two longer than a cap by themselves
PartKinds ==
    {Part(100, 0), Part(3799, 3799), Part(3800, 3800), Part(12000, 12000), Part(40000, 0)}

Corpora ==
    [parts            : UNION {[1..n -> PartKinds] : n \in 0..MaxParts},
     max_chars        : {<<>>, <<7000>>},
     model_max_tokens : {16000, 65000, 128000},
     input_ratio      : {55, 60, 65}]

\* The news batching over any table
InitBatch ==
    /\ request = [stock_code |-> Symbol, end_date |-> NoDate]
    /\ mock \in StreamMocks /\ mock.raises = {}
    /\ entry = "none"
    /\ RegistryReady
    /\ InitRun
    /\ corpus \in Corpora
    /\ batches = NoBatches
    /\ items = <<>>
    /\ merged = <<>>
    /\ SelectionIdle

NextBatch == AnalyzeNewsBatched

SpecBatch == InitBatch /\ [][NextBatch]_vars

\* How many crawled items reach the event aggregation at most
MaxItems == 3

\* Titles whose key is "ab" (two of them), "notice ab1" or empty (two)
Titles ==
    {<<"A", "b">>, <<" ", "a", "filler", "B", "-", "1", "2">>,
     <<"notice", "-", "a", "b", "1">>, <<"1", "1">>, <<"filler", ":">>}

\* The items were kept by URL: no two of them share one; the i-th is of
\* the aliased domain when i is odd, and was published at time 2i mod 3
\* (0: no time known)
ItemAt(i, title, source) ==
    [title        |-> title,
     url          |-> Url(IF i % 2 = 1 THEN "cls_cn" ELSE "x_com", i),
     source       |-> source,
     published_at |-> (2 * i) % 3]

\* The source names the search results give: none, an aliased one, another one
Sources == {"", "CLS", "Blog"}

\* The event aggregation over any crawled items
InitAggregate ==
    /\ request = [stock_code |-> Symbol, end_date |-> NoDate]
    /\ mock \in StreamMocks /\ mock.raises = {}
    /\ entry = "none"
    /\ RegistryReady
    /\ InitRun
    /\ corpus = NoCorpus
    /\ batches = NoBatches
    /\ \E n \in 1..MaxItems : \E t \in [1..n -> Titles], src \in [1..n -> Sources] :
        items = [i \in 1..n |-> ItemAt(i, t[i], src[i])]
    /\ merged = <<>>
    /\ SelectionIdle

NextAggregate == AggregateEvents

SpecAggregate == InitAggregate /\ [][NextAggregate]_vars

\* How many items reach the selection at most
MaxNews == 3

\* The request asks for news up to day 10; an item has no time, or one
\* before the window, within it (two of them), or after the end date
PublishedAts == {<<>>, <<4>>, <<8>>, <<9>>, <<12>>}

\* The selection over any enriched items
InitSelect ==
    /\ request = [stock_code |-> Symbol, end_date |-> NoDate]
    /\ mock \in StreamMocks /\ mock.raises = {}
    /\ entry = "none"
    /\ RegistryReady
    /\ InitRun
    /\ corpus = NoCorpus
    /\ batches = NoBatches
    /\ items = <<>>
    /\ merged = <<>>
    /\ \E n \in 0..MaxNews :
        \E pr \in [1..n -> BOOLEAN], at \in [1..n -> PublishedAts], im \in [1..n -> {50, 70}],
           topk \in {1, 2} :
            crawl = [items            |-> [i \in 1..n |-> EnrichedItem(i, pr[i], at[i], im[i])],
                     end_dt           |-> 10,
                     news_window_days |-> 3,
                     news_topk        |-> topk]
    /\ selected = NotSelected
    /\ article = NoArticle
    /\ published = NotPublished
    /\ WindowIdle
    /\ ServiceIdle

NextSelect == SelectNews

SpecSelect == InitSelect /\ [][NextSelect]_vars

\* The time resolution over any article: each signal absent or present, the
\* signals carrying different times
InitResolve ==
    /\ request = [stock_code |-> Symbol, end_date |-> NoDate]
    /\ mock \in StreamMocks /\ mock.raises = {}
    /\ entry = "none"
    /\ RegistryReady
    /\ InitRun
    /\ corpus = NoCorpus
    /\ batches = NoBatches
    /\ items = <<>>
    /\ merged = <<>>
    /\ crawl = NoCrawl
    /\ selected = NotSelected
    /\ article \in [fetch      : {"ok", "raise"},
                    structured : {<<>>, NoTimeFormat, <<90000>>},
                    visible    : {<<>>, <<91000>>},
                    url        : {<<>>, <<86400>>},
                    relative   : {<<>>, <<"minute", 5>>, <<"hour", 2>>, <<"day", 1>>,
                                  <<"month", 1>>},
                    end_dt     : {100800}]
    /\ published = NotPublished
    /\ WindowIdle
    /\ ServiceIdle

NextResolve == ResolveTime

SpecResolve == InitResolve /\ [][NextResolve]_vars

\* The end dates: the first, the middle and the last days of every month of
\* four years, one of them a leap year
SpanEnds ==
    {d \in [year : 2023..2026, month : 1..12, day : {1, 15, 28, 29, 30, 31}] : IsDate(d)}

\* The window of any valid end_date
InitWindow ==
    /\ request = [stock_code |-> Symbol, end_date |-> NoDate]
    /\ mock \in StreamMocks /\ mock.raises = {}
    /\ entry = "none"
    /\ RegistryReady
    /\ InitRun
    /\ corpus = NoCorpus
    /\ batches = NoBatches
    /\ items = <<>>
    /\ merged = <<>>
    /\ crawl = NoCrawl
    /\ selected = NotSelected
    /\ article = NoArticle
    /\ published = NotPublished
    /\ span_end \in [fmt : {"%Y%m%d", "%Y-%m-%d"}, date : SpanEnds]
    /\ span = NoSpan
    /\ ServiceIdle

NextWindow == ComputeWindow

SpecWindow == InitWindow /\ [][NextWindow]_vars

(* ----------------------------- properties ----------------------------- *)

\* An execution of node n has ended (returned or raised)
Ended(n) == runs[n] > 0 \/ n \in failed

\* The end_date the run works with
RunDate == inputs(request).end_date

\* The run of the background task is over
Completed == task.status = "completed"

\* C1: no execution of sentiment_analysis starts before fundamental_analysis
\* and news_analysis have ended, and no execution of supervisor starts before
\* sentiment_analysis, technical_analysis, fund_analysis and
\* fundamental_analysis have all ended.
C1_StartAfterPredecessors ==
    /\ Running("sentiment_analysis") =>
           Ended("fundamental_analysis") /\ Ended("news_analysis")
    /\ Running("supervisor") =>
           \A p \in {"sentiment_analysis", "technical_analysis", "fund_analysis",
                     "fundamental_analysis"} : Ended(p)

\* A supervisor execution under way while sentiment_analysis is still running
C1_SupervisorBesideSentiment ==
    /\ Running("supervisor")
    /\ Running("sentiment_analysis")
    /\ ~Ended("sentiment_analysis")

\* C2: an exception raised in one node is contained at that node: no exception
\* leaves a node body, and a run that is over has executed final_result_save.
C2_ErrorsContained ==
    /\ failed = {}
    /\ task.status \in {"completed", "failed"} => runs["final_result_save"] >= 1

\* A run in which the LLM call of one node raised and that ended without
\* executing final_result_save
C2_RunAborted ==
    /\ task.status = "failed"
    /\ failed # {}
    /\ runs["final_result_save"] = 0

\* How many frames of the stream have finish_reason=stop on one of the agents
StopFrames(agents) ==
    Cardinality({i \in 1..Len(stream) :
                    stream[i].finish_reason = "stop" /\ stream[i].agent \in agents})

\* C3 (as stated): a closed stream holds exactly one frame with
\* finish_reason=stop on agent=system or agent=system_error.
C3_OneStopFrame ==
    gen = "closed" => StopFrames({"system", "system_error"}) = 1

\* C3 (amended): a closed stream holds exactly one finish_reason=stop frame on
\* agent=system, and one on agent=system_error exactly when the run raised;
\* before the stream is closed it holds no frame on agent=system.
C3_StopFramesPerAgent ==
    /\ gen = "closed" =>
           /\ StopFrames({"system"}) = 1
           /\ StopFrames({"system_error"}) = (IF graph = "raised" THEN 1 ELSE 0)
    /\ gen # "closed" => StopFrames({"system"}) = 0

\* A closed stream of a run that raised after node frames were sent
C3_ClosedAfterRaise ==
    /\ gen = "closed"
    /\ graph = "raised"
    /\ StopFrames({"system", "system_error"}) = 2
    /\ \E i \in 1..Len(stream) : stream[i].event_type = "node_complete"

\* C4: the last frame of a closed stream is the message_chunk of agent=system
\* with finish_reason=stop and it occurs nowhere else in the stream; when the run
\* raised, the frame before it is the message_chunk of agent=system_error and
\* every frame before that one is a frame of the graph and its nodes.
C4_TerminalFrame ==
    gen = "closed" =>
        /\ Len(stream) >= 1
        /\ \A i \in 1..Len(stream) : (stream[i] = SystemFinal) <=> (i = Len(stream))
        /\ graph = "raised" =>
               /\ Len(stream) >= 2
               /\ stream[Len(stream) - 1] = SystemError
               /\ \A i \in 1..(Len(stream) - 2) :
                      stream[i].agent \notin {"system", "system_error"}
        /\ graph # "raised" =>
               \A i \in 1..Len(stream) : stream[i].agent # "system_error"

\* A closed stream whose run raised in the superstep of sentiment_analysis
C4_ClosedAfterSentimentRaise ==
    /\ gen = "closed"
    /\ "sentiment_analysis" \in failed
    /\ stream[Len(stream)] = SystemFinal
    /\ \E i \in 1..Len(stream) : stream[i] = Frame("node_complete", "fundamental_analysis", "stop")

\* The file names present in the result directory
Names == {p[3] : p \in DOMAIN files}

ReportNames ==
    {"fundamental_report.json", "technical_report.json", "fund_report.json",
     "news_report.json", "sentiment_report.json", "supervisor_report.json"}

C6_OneDirectory ==
    _parse_date(RunDate).ok =>
        \A p \in DOMAIN files : p[1] = Symbol /\ p[2] = _parse_date(RunDate).day

\* A complete run for another day than today whose summary lies in today's directory
C6_SummaryUnderToday ==
    /\ Completed
    /\ _parse_date(RunDate).ok
    /\ _parse_date(RunDate).day # Today
    /\ <<Symbol, Today, "analysis_summary.json">> \in DOMAIN files
    /\ <<Symbol, _parse_date(RunDate).day, "supervisor_report.json">> \in DOMAIN files

\* The result of the news tool as stored for the run, and whether it is stored
\* in structured form
StoredNews == load_tool_result(files, Symbol, "news_data", RunDate)
NewsStored == StoredNews.found /\ "data" \in DOMAIN StoredNews.payload

\* C7: once the news tool result with combined_summary S is stored, the
\* news_summary in the supervisor's prompt is S.
C7_SupervisorReadsSummary ==
    ("supervisor" \in DOMAIN prompt /\ NewsStored) =>
        prompt["supervisor"].news_summary = StoredNews.payload.data.combined_summary

\* The supervisor prompted with an empty news_summary although a summary is stored
C7_EmptyNewsSummary ==
    /\ "supervisor" \in DOMAIN prompt
    /\ NewsStored
    /\ StoredNews.payload.data.combined_summary # EmptyText
    /\ prompt["supervisor"].news_summary = EmptyText

\* The result of the fundamental tool as stored for the run
StoredFundamental == load_tool_result(files, Symbol, "fundamental_data", RunDate)
FundamentalStored == StoredFundamental.found /\ "data" \in DOMAIN StoredFundamental.payload
StoredInterfaces  == StoredFundamental.payload.data.interfaces

\* The snapshot of the sentiment inputs as load_tool_result returns it
StoredSentimentInput == load_tool_result(files, Symbol, "sentiment_input", RunDate)

\* The sentiment node has run on stored, structured results of both tools
SentimentAfterTools ==
    "sentiment_analysis" \in DOMAIN prompt /\ NewsStored /\ FundamentalStored

\* The two strings of the stored snapshot are the two inputs of the prompt
SnapshotIsInput ==
    /\ StoredSentimentInput.found
    /\ StoredSentimentInput.payload.data.news_combined_summary
           = prompt["sentiment_analysis"].sentiment_data.news_combined_summary
    /\ StoredSentimentInput.payload.data.fundamental_result
           = prompt["sentiment_analysis"].sentiment_data.fundamental_result

\* C8 (as stated): the inputs of the sentiment node are the stored news
\* combined_summary and the concatenation of the stored per-interface result
\* fields, and the stored snapshot holds the same two strings.
C8_InputsAsStated ==
    SentimentAfterTools =>
        /\ prompt["sentiment_analysis"].sentiment_data.news_combined_summary
               = StoredNews.payload.data.combined_summary
        /\ prompt["sentiment_analysis"].sentiment_data.fundamental_result
               = Join([k \in 1..Len(StoredInterfaces) |-> StoredInterfaces[k].result], <<>>)
        /\ SnapshotIsInput

\* C8 (amended): the inputs of the sentiment node are the stored news
\* combined_summary and the stored per-interface result fields in stored order,
\* each preceded by the interface's objective in brackets and a line break,
\* joined by blank lines; the stored snapshot holds the same two strings.
C8_InputsAsBuilt ==
    SentimentAfterTools =>
        /\ prompt["sentiment_analysis"].sentiment_data.news_combined_summary
               = StoredNews.payload.data.combined_summary
        /\ prompt["sentiment_analysis"].sentiment_data.fundamental_result
               = Join([k \in 1..Len(StoredInterfaces) |->
                          <<"[" \o StoredInterfaces[k].objective \o "]", "\n">>
                          \o StoredInterfaces[k].result],
                      <<"\n\n">>)
        /\ SnapshotIsInput

\* The sentiment node has returned in a run whose fundamental interfaces
\* completed in another order than they were submitted
C8_SentimentRan ==
    /\ SentimentAfterTools
    /\ runs["sentiment_analysis"] = 1
    /\ StoredInterfaces[1].name # data_objectives[1].dtype
    /\ StoredNews.payload.data.combined_summary # EmptyText

\* Some initialize() has run
Initialised == cache_manager # NewCacheManager

\* The i-th provider of the order is the first whose probe returns a non-empty table
FirstNonEmpty(i) ==
    /\ probe[ProviderOrder[i]] = "nonempty"
    /\ \A j \in 1..(i - 1) : probe[ProviderOrder[j]] # "nonempty"

\* A client of the provider exists, so that its probe call can be issued
HasClient(name) == probe[name] \notin {"unconfigured", "no_client"}

\* C9: initialize() probes in the order tushare, tinyshare, akshare; a provider
\* whose probe raises or returns an empty table is skipped; after a successful
\* initialize() the selected provider and provider_type are the first of the
\* order whose probe returned a non-empty table, and no later provider was
\* probed.  initialize() succeeds exactly when there is such a provider.
C9_FirstAvailableSelected ==
    /\ Initialised =>
           \A i \in 1..Len(ProviderOrder) :
               FirstNonEmpty(i) =>
                   /\ cache_manager.provider = [name |-> ProviderOrder[i], is_available |-> TRUE]
                   /\ cache_manager.provider_type = ProviderOrder[i]
                   /\ cache_manager.probed = SelectSeq(SubSeq(ProviderOrder, 1, i), HasClient)
    /\ init_result = "ok" => \E i \in 1..Len(ProviderOrder) : FirstNonEmpty(i)
    /\ init_result = "raised" => ~\E i \in 1..Len(ProviderOrder) : FirstNonEmpty(i)

\* tushare's probe raised, tinyshare's returned an empty table, akshare's a
\* non-empty one, and initialize() selected akshare
C9_TertiarySelected ==
    /\ probe = [tushare |-> "raise", tinyshare |-> "empty", akshare |-> "nonempty"]
    /\ init_result = "ok"
    /\ cache_manager.provider.name = "akshare"
    /\ cache_manager.provider_type = "akshare"
    /\ cache_manager.probed = ProviderOrder

\* C10: when no provider probes successfully, every fetch of the analyst tools
\* returns a structured "unavailable" error, and no fetch is ever routed to a
\* provider whose probe failed.
C10_UnavailableWithoutProvider ==
    \A i \in 1..Len(fetches) :
        /\ (\A name \in DOMAIN probe : probe[name] # "nonempty") =>
               fetches[i].kind = "unavailable"
        /\ fetches[i].kind = "fetched" => probe[fetches[i].provider] = "nonempty"

\* initialize() raised at import and a later fetch went to the provider object
\* left in the registry
C10_FetchedFromFailedProvider ==
    /\ init_result = "raised"
    /\ \E i \in 1..Len(fetches) :
           /\ fetches[i].tool = "get_fundamental_data"
           /\ fetches[i].kind = "fetched"
           /\ fetches[i].provider = cache_manager.provider.name
           /\ ~cache_manager.provider.is_available

\* The result a tool of the acquisition layer stored, and its interfaces
StoredTool(tool_name) == load_tool_result(files, Symbol, tool_name, request.end_date)
ToolOf(dtype) == IF dtype \in DOMAIN fund_data_objectives THEN "fund_data" ELSE "fundamental_data"
StoredInterface(dtype) == StoredTool(ToolOf(dtype)).payload.data.interfaces[dtype]
StoredCounts(dtype) == StoredTool(ToolOf(dtype)).payload.data.summary

\* Every upstream call behind the interface met the given response
AllResponses(dtype, response) ==
    /\ calls[dtype] # <<>>
    /\ \A i \in 1..Len(calls[dtype]) : calls[dtype][i].response = response

\* C11: after a provider has been selected, every upstream call of every fetch
\* goes to the selected provider; no fetch consults another data source.
C11_SelectedProviderOnly ==
    \A d \in DOMAIN calls : \A i \in 1..Len(calls[d]) :
        calls[d][i].source = get_provider(cache_manager).name

\* C11: with tushare selected, the northbound fetch was served by akshare alone
C11_ServedByAkshare ==
    /\ get_provider(cache_manager).name = "tushare"
    /\ "moneyflow_hsgt" \in DOMAIN calls
    /\ Len(calls["moneyflow_hsgt"]) = 1
    /\ calls["moneyflow_hsgt"][1].source = "akshare"
    /\ StoredInterface("moneyflow_hsgt").raw # <<>>

\* The interfaces keyed by a single trade date
TradeDateInterfaces == {"top_list", "moneyflow_cnt_ths"}

\* The queries an interface made of its own single-trade-date API
OwnQueries(dtype) ==
    LET Own(c) == c.api = dtype
    IN SelectSeq(calls[dtype], Own)

\* C12: a single-trade-date interface queries end_date first, then the days
\* end_date-1, end_date-2, ... while the answers are empty, stops at the first
\* non-empty answer, and gives up with an empty table only after five retries.
C12_TradeDateFallback ==
    \A d \in TradeDateInterfaces \cap DOMAIN calls :
        LET q == OwnQueries(d)
        IN q # <<>> =>
            /\ \A i \in 1..Len(q) : q[i].trade_date.back = i - 1
            /\ \A i \in 1..(Len(q) - 1) : q[i].response # "rows"
            /\ Len(q) <= FallbackDays + 1
            /\ q[Len(q)].response # "rows" => Len(q) = FallbackDays + 1
            /\ (StoredInterface(d).raw # <<>>) <=> (q[Len(q)].response = "rows")

\* C12: the top list was queried for a readable end_date, came back empty and
\* no earlier day was tried
C12_TopListNotRetried ==
    /\ "top_list" \in DOMAIN calls
    /\ request.end_date.fmt = "%Y%m%d"
    /\ Len(calls["top_list"]) = 1
    /\ calls["top_list"][1].response = "empty"
    /\ StoredInterface("top_list").raw = <<>>

\* The text that names the analysis window of a request: the window itself
\* for an end_date the layer reads, the default window for an absent one
WindowString(end_date) ==
    IF end_date = NoDate THEN "the last two years"
    ELSE _get_date_range(end_date).day \o "-730d" \o " to " \o _get_date_range(end_date).day

Contains(text, token) == \E i \in 1..Len(text) : text[i] = token

\* An interface whose upstream answered with empty tables is recorded as a
\* success without rows and counted among the successful interfaces
EmptyIsSuccess(d) ==
    /\ StoredInterface(d).status = "success"
    /\ StoredInterface(d).raw = <<>>
    /\ StoredCounts(d).successful_interfaces =
            Cardinality({e \in DOMAIN calls : StoredInterface(e).status = "success"})
    /\ StoredCounts(d).successful_interfaces + StoredCounts(d).error_interfaces =
            StoredCounts(d).total_interfaces

C14_UpstreamFailureIsError ==
    \A d \in DOMAIN calls :
        AllResponses(d, "raise") => StoredInterface(d).status = "error"

\* C14: the only upstream call of an interface raised and the interface is
\* stored as a success
C14_RaiseStoredAsSuccess ==
    /\ "daily_basic" \in DOMAIN calls
    /\ AllResponses("daily_basic", "raise")
    /\ StoredInterface("daily_basic").status = "success"
    /\ StoredCounts("daily_basic").error_interfaces = 0

\* The analyst nodes, the names of their analysts and their report files
AnalystOf ==
    [fundamental_analysis |-> "fundamental_analyst", technical_analysis |-> "technical_analyst",
     sentiment_analysis   |-> "sentiment_analyst",   news_analysis      |-> "news_analyst",
     fund_analysis        |-> "fund_analyst"]
ReportFile ==
    [fundamental_analysis |-> "fundamental_report.json", technical_analysis |-> "technical_report.json",
     sentiment_analysis   |-> "sentiment_report.json",   news_analysis      |-> "news_report.json",
     fund_analysis        |-> "fund_report.json"]

\* What is persisted under a file name, in whatever date directory
Persisted(filename) == {files[p].data : p \in {q \in DOMAIN files : q[3] = filename}}

\* C15: every persisted analyst report has the five envelope fields
\* analyst_name, viewpoint, reason, scores and detailed_analysis, whatever the
\* LLM answered (an object with fields missing, JSON that is no object, text
\* that is no JSON).
C15_FiveFields ==
    \A n \in DOMAIN ReportFile : \A data \in Persisted(ReportFile[n]) :
        RequiredFields \subseteq DOMAIN data

\* C15: an analyst answered with the JSON list of the five field names and the
\* list itself was persisted as the report
C15_ListPersisted ==
    /\ mock.content.analyst.json = "list_of_names"
    /\ List(RequiredFields) \in Persisted(ReportFile["technical_analysis"])

\* C16: the scores of every persisted analyst report have exactly the score
\* keys of the perspective, with integer values in 0..5.
C16_ScoresOfPerspective ==
    \A n \in DOMAIN ReportFile : \A data \in Persisted(ReportFile[n]) :
        /\ "scores" \in DOMAIN data
        /\ DOMAIN data.scores = ScoreKeys[AnalystOf[n]]
        /\ \A k \in DOMAIN data.scores : data.scores[k] \in 0..5

\* C16: a report was persisted whose scores have the keys of the perspective
\* and a value outside 0..5
C16_ScoreOutOfRange ==
    \E data \in Persisted(ReportFile["fundamental_analysis"]) :
        /\ RequiredFields \subseteq DOMAIN data
        /\ DOMAIN data.scores = ScoreKeys["fundamental_analyst"]
        /\ \E k \in DOMAIN data.scores : data.scores[k] > 5

\* The analysts' answer is no JSON for the parser
Unparsable ==
    mock.content.analyst.json = "text"
    \/ (mock.content.analyst.prose /\ ~mock.content.analyst.fenced)

\* The sentinel report of an answer that is no JSON
IsParseSentinel(data, content) ==
    /\ RequiredFields \subseteq DOMAIN data
    /\ data.analyst_name = "analysis failed"
    /\ data.viewpoint = "neutral"
    /\ data.detailed_analysis[1] = "parse failed: "
    /\ Len(data.detailed_analysis) =
            2 + (IF content.length < SentinelChars THEN content.length ELSE SentinelChars)
    /\ \A i \in 2..(Len(data.detailed_analysis) - 1) :
            data.detailed_analysis[i] = RawText(content)[i - 1]

\* C17: when the answer of an analyst's LLM is no JSON, the node completes and
\* the report it persisted is the sentinel: analyst_name "analysis failed",
\* viewpoint "neutral", detailed_analysis "parse failed:" followed by the
\* first 200 characters of the answer.
C17_SentinelOnParseFailure ==
    Unparsable =>
        /\ failed = {}
        /\ \A n \in DOMAIN ReportFile :
            runs[n] > 0 =>
                /\ Persisted(ReportFile[n]) # {}
                /\ \A data \in Persisted(ReportFile[n]) :
                        IsParseSentinel(data, mock.content.analyst)

\* C17: an answer of more than 200 characters that is no JSON was cut to 200
\* characters in the report the technical node persisted
C17_LongAnswerTruncated ==
    /\ mock.content.analyst.json = "text"
    /\ mock.content.analyst.length > SentinelChars
    /\ runs["technical_analysis"] > 0
    /\ \E data \in Persisted(ReportFile["technical_analysis"]) :
            Len(data.detailed_analysis) = SentinelChars + 2

\* C18: every run that ends leaves a persisted supervisor report of the
\* SupervisorReport shape: analyst_name, summary and a forecast with the
\* blocks short_term, mid_term and long_term.
C18_SupervisorShape ==
    Completed =>
        /\ Persisted("supervisor_report.json") # {}
        /\ \A data \in Persisted("supervisor_report.json") :
            /\ {"analyst_name", "summary", "forecast"} \subseteq DOMAIN data
            /\ DOMAIN data.forecast = {"short_term", "mid_term", "long_term"}

\* C18: the run ended and the persisted supervisor report is the parser's
\* error record
C18_ErrorRecordPersisted ==
    /\ Completed
    /\ \E data \in Persisted("supervisor_report.json") :
            DOMAIN data = {"error", "raw_content"}

\* The characters of batch i, its parts joined by blank lines
BatchLen(i) == JoinedLen(batches.list[i], 2)

\* cap(M, ratio) of the call
CapOf == _calc_batch_char_cap(corpus.parts, corpus.model_max_tokens, corpus.input_ratio)

\* C19: every batch the news batching produces has at most cap(M, ratio)
\* characters and at most 38000.
C19_BatchWithinCap ==
    batches.status = "done" =>
        \A i \in 1..Len(batches.list) : BatchLen(i) <= CapOf /\ BatchLen(i) <= MaxBatchChars

\* A batch of a single row longer than 38000 characters, under the computed cap
C19_OversizedRowAlone ==
    /\ batches.status = "done"
    /\ corpus.max_chars = <<>>
    /\ \E i \in 1..Len(batches.list) :
        /\ Len(batches.list[i]) = 1
        /\ BatchLen(i) > MaxBatchChars
        /\ BatchLen(i) > batches.max_chars

\* The canonicalized title of an item and its normalized source name
Canon(it) == _canonical_event_key(it.title)

SourceNorm(it) == normalize_source_name(it.source, it.url)

Values(list) == {list[i] : i \in 1..Len(list)}

\* The items of the given positions have exactly one representative among the
\* merged items, and its sources and urls are those of the items, each once
OneRepresentative(group) ==
    LET reps == {k \in 1..Len(merged) : \E j \in group : merged[k].url = items[j].url}
    IN /\ Cardinality(reps) = 1
       /\ \A k \in reps :
            /\ Values(merged[k].urls) = {items[j].url : j \in group}
            /\ Len(merged[k].urls) = Cardinality(Values(merged[k].urls))
            /\ Values(merged[k].sources) = {SourceNorm(items[j]) : j \in group} \ {""}
            /\ Len(merged[k].sources) = Cardinality(Values(merged[k].sources))

\* C20 as stated: all items whose canonicalized titles are equal are merged
\* into exactly one representative whose sources and urls are the unions of
\* the group's.
C20_EqualTitlesOneRepresentative ==
    merged # <<>> =>
        \A i \in 1..Len(items) :
            OneRepresentative({j \in 1..Len(items) : Canon(items[j]) = Canon(items[i])})

\* C20: all items whose canonicalized titles are equal and not empty are
\* merged into exactly one representative, an item whose canonicalized title
\* is empty is the representative of itself alone, every merged item is such
\* a representative, and a representative's sources (normalized names, the
\* empty one left out) and urls are the unions of its group's, each once.
C20_NamedEventsMerged ==
    merged # <<>> =>
        /\ \A i \in 1..Len(items) :
            OneRepresentative(IF Canon(items[i]) = <<>> THEN {i}
                              ELSE {j \in 1..Len(items) : Canon(items[j]) = Canon(items[i])})
        /\ \A k \in 1..Len(merged) : \E i \in 1..Len(items) :
            /\ merged[k].url = items[i].url
            /\ merged[k].title = items[i].title

\* Three items of one event, from two sources, merged into one representative
C20_ThreeReportsOneEvent ==
    /\ Len(items) = 3
    /\ Len(merged) = 1
    /\ Len(merged[1].urls) = 3
    /\ Len(merged[1].sources) = 2
    /\ \E i, j \in 1..3 : items[i].title # items[j].title

\* The start of the window of the selection
Cutoff == crawl.end_dt - crawl.news_window_days

HasTime(it) == it.published_at # <<>>

Kept(it) == \E k \in 1..Len(selected.list) : selected.list[k].id = it.id

Candidates == {crawl.items[i] : i \in 1..Len(crawl.items)}

\* C21: the selection holds only items whose time is within the last N days
\* before the end date, at most K of them, and none when no item is in the
\* window.
C21_SelectionWithinWindow ==
    selected.done =>
        /\ \A k \in 1..Len(selected.list) :
            /\ HasTime(selected.list[k])
            /\ selected.list[k].published_at[1] >= Cutoff
            /\ selected.list[k].published_at[1] <= crawl.end_dt
        /\ Len(selected.list) <= crawl.news_topk
        /\ (\A it \in Candidates :
                ~(HasTime(it) /\ it.published_at[1] >= Cutoff /\ it.published_at[1] <= crawl.end_dt))
            => selected.list = <<>>

\* No item is within the window, and an item dated after the end date is selected
C21_LaterItemSelected ==
    /\ selected.done
    /\ \A it \in Candidates :
        HasTime(it) => it.published_at[1] < Cutoff \/ it.published_at[1] > crawl.end_dt
    /\ \E k \in 1..Len(selected.list) : selected.list[k].published_at[1] > crawl.end_dt

\* a comes before b under (priority descending, time descending, impact descending)
Precedes(a, b) ==
    \/ a.priority /\ ~b.priority
    \/ a.priority = b.priority /\ a.published_at[1] > b.published_at[1]
    \/ a.priority = b.priority /\ a.published_at[1] = b.published_at[1] /\ a.impact > b.impact

\* The items the selection takes for in-window
Eligible == {it \in Candidates : HasTime(it) /\ it.published_at[1] >= Cutoff}

\* C22: the selected items are the first K of the in-window items under
\* (priority descending, time descending, impact descending): a selected item
\* is never preceded by an in-window item left out, and the list is in
\* that order.
C22_FirstKByPriority ==
    selected.done =>
        /\ \A it \in Eligible : Kept(it) \/ Len(selected.list) = crawl.news_topk
        /\ \A it \in Eligible : \A k \in 1..Len(selected.list) :
            ~Kept(it) => ~Precedes(it, selected.list[k])
        /\ \A j, k \in 1..Len(selected.list) :
            j < k => ~Precedes(selected.list[k], selected.list[j])

\* A priority item of the window is left out and an item without priority,
\* of the window too, is selected
C22_PriorityItemDropped ==
    /\ selected.done
    /\ \E it \in Eligible :
        /\ it.priority
        /\ it.published_at[1] <= crawl.end_dt
        /\ ~Kept(it)
        /\ \E k \in 1..Len(selected.list) :
            /\ ~selected.list[k].priority
            /\ selected.list[k].published_at[1] <= crawl.end_dt

\* The time a relative expression stands for
Relative == _infer_relative_time(article.relative, article.end_dt)

\* C23: the published_at of an article whose page was read is its structured
\* field; without one (or without a parsable one) the time of the visible
\* text; without that the date of the URL; and only then the relative time.
C23_TimePriority ==
    published.done /\ article.fetch = "ok" =>
        published.published_at =
            IF _parse_any_dt_cn(article.structured) # <<>> THEN article.structured
            ELSE IF article.visible # <<>> THEN article.visible
            ELSE IF article.url # <<>> THEN article.url
            ELSE Relative

\* An article without a structured field, with a time in its visible text
\* and a date in its URL, is given the date of the URL
C23_VisibleTimeIgnored ==
    /\ published.done
    /\ article.fetch = "ok"
    /\ article.structured = <<>>
    /\ article.visible # <<>>
    /\ article.url # <<>>
    /\ published.published_at = article.url

\* The same month and day two years before the end date
TwoYearsBefore ==
    Date(span_end.date.year - 2, span_end.date.month, span_end.date.day)

\* C24: the start of the window, as used for the fetches and as written into
\* summaries and analysis_period, is the end date minus exactly two calendar
\* years, with the same month and day.
C24_TwoCalendarYears ==
    span.done =>
        /\ span.fetch = <<TwoYearsBefore>>
        /\ span.summary # <<>> => span.summary = <<TwoYearsBefore>>
        /\ span.analysis_period = <<TwoYearsBefore>>

\* For an end date that is no 29 February, the fetch starts on another day than
\* the analysis_period of the same run says
C24_FetchStartsADayLate ==
    /\ span.done
    /\ IsDate(TwoYearsBefore)
    /\ span.analysis_period = <<TwoYearsBefore>>
    /\ span.fetch # <<TwoYearsBefore>>
    /\ span.summary = span.fetch

\* How many node_complete frames the stream holds for a node
NodeCompletes(n) ==
    Cardinality({i \in 1..Len(stream) : stream[i] = Frame("node_complete", n, "stop")})

\* C25: in a run that is not aborted every node executes exactly once, and
\* the stream holds exactly one node_complete frame for each node whose end
\* is reported.
C25_EachNodeOnce ==
    gen = "closed" /\ graph # "raised" =>
        /\ \A n \in Nodes : runs[n] = 1
        /\ \A n \in Nodes \cap ReportedNodes : NodeCompletes(n) = 1

\* A closed stream of a run without failure in which supervisor and
\* final_result_save executed twice and were reported complete twice
C25_SupervisorReportedTwice ==
    /\ gen = "closed"
    /\ graph # "raised"
    /\ failed = {}
    /\ runs["supervisor"] = 2
    /\ runs["final_result_save"] = 2
    /\ NodeCompletes("supervisor") = 2
    /\ NodeCompletes("final_result_save") = 2
    /\ \A n \in Nodes \ {"supervisor", "final_result_save"} : runs[n] = 1

\* The fundamental mock of the run with its workers completing in the order
\* of their submission
Submitted == [mock.fundamental EXCEPT !.order = [k \in FundInterfaces |-> k]]

\* The interfaces stored under fundamental_data, by name
StoredByName ==
    LET stored == load_tool_result(files, request.stock_code, "fundamental_data", RunDate)
    IN {stored.payload.data.interfaces[k] : k \in 1..Len(stored.payload.data.interfaces)}

\* C26: for fixed outcomes of the interfaces, what fundamental_analysis
\* persists and the text it hands to the analyst LLM are the same for every
\* order in which its workers complete.
C26_OrderIndependent ==
    ("fundamental_analysis" \in DOMAIN prompt /\ mock.fundamental.kind = "ok") =>
        /\ StoredByName = {interface_results(Submitted)[k] : k \in 1..MaxInterfaces}
        /\ prompt["fundamental_analysis"].fundamental_data = fundamental_data_text(Submitted)

\* Two workers with the same outcome as in submission order completed in the
\* other order: the same interfaces are stored, and the analyst reads another text
C26_TextInCompletionOrder ==
    /\ "fundamental_analysis" \in DOMAIN prompt
    /\ mock.fundamental.kind = "ok"
    /\ mock.fundamental.order # Submitted.order
    /\ StoredByName = {interface_results(Submitted)[k] : k \in 1..MaxInterfaces}
    /\ prompt["fundamental_analysis"].fundamental_data # fundamental_data_text(Submitted)

\* The threads that are inside initialize()
Initializing == {t \in DOMAIN threads : threads[t].pc \in {"assign", "test"}}

\* C27: the registry is initialised once: of the tools started concurrently
\* while no provider is set at most one runs initialize(), and every provider
\* a tool obtains has passed its probe.
C27_InitialisedOnceProbed ==
    /\ Cardinality({t \in DOMAIN threads : threads[t].entered}) <= 1
    /\ \A t \in DOMAIN threads :
           threads[t].obtained # <<>> => threads[t].obtained[1].is_available

\* A tool that has obtained a provider whose probe failed while another thread
\* is inside initialize()
C27_UnprobedProviderObtained ==
    \E t \in DOMAIN threads :
        /\ threads[t].obtained # <<>>
        /\ ~threads[t].obtained[1].is_available
        /\ ~threads[t].entered
        /\ Initializing \ {t} # {}

\* The place of a status in the life of a task
StatusRank(st) ==
    CASE st = "pending" -> 0
      [] st = "running" -> 1
      [] OTHER          -> 2

\* C28: a reader of the task map never sees a status ahead of the task's, and
\* whenever get_task_status reports completed or failed the result it reports
\* is set.
C28_StatusWithResult ==
    polled # <<>> =>
        /\ StatusRank(polled[1].status) <= StatusRank(task.status)
        /\ polled[1].status \in {"completed", "failed"} => polled[1].result # <<>>

\* A response of get_task_status that says completed and carries no result,
\* for a task whose result has been assigned since
C28_CompletedWithoutResult ==
    /\ polled = <<[status |-> "completed", result |-> <<>>]>>
    /\ task.status = "completed"
    /\ task.result # <<>>

\* get_news_config has run since the file was last written
Reloaded == yaml_file.mtime # <<>> /\ _CFG_CACHE.mtime = yaml_file.mtime

\* C29: the built-in defaults are never changed, and the configuration
\* returned after a change of the file is the built-in defaults overridden by
\* what the file holds now.
C29_DefaultsOverriddenByCurrentFile ==
    /\ DEFAULT_NEWS_CFG = BuiltinDefaults
    /\ Reloaded => _CFG_CACHE.cfg = _deep_update(BuiltinDefaults, yaml_file.data)

\* The file no longer overrides source_weights, and the configuration returned
\* still carries the weight an earlier version of the file set
C29_RemovedOverrideReturned ==
    /\ Reloaded
    /\ yaml_file.data.source_weights = <<>>
    /\ "Blog" \in DOMAIN _CFG_CACHE.cfg.source_weights
    /\ "Blog" \notin DOMAIN BuiltinDefaults.source_weights

\* The parts of the batches, read in batch order
RECURSIVE Flatten(_)
Flatten(list) == IF list = <<>> THEN <<>> ELSE Head(list) \o Flatten(Tail(list))

====
